---- MODULE Spec2Model ----
(***************************************************************************)
(* Model of the Z39.50 search dispatcher (workers.py: Worker,             *)
(* ServerQueryRunnable) together with the part of the main window        *)
(* (main.py: WorkerManager, Z3950SearchApp) that receives its signals.   *)
(*                                                                         *)
(* Threads: the worker QThread runs Worker.run; the QThreadPool threads   *)
(* run one ServerQueryRunnable.run per server; the main (GUI) thread runs *)
(* the slots connected to the worker's signals and Worker.cancel().      *)
(* Signals emitted on the worker side reach the main thread through its   *)
(* event queue (queued connections), in posting order.                    *)
(*                                                                         *)
(* Granularity: one action per stretch of code between two points where   *)
(* another thread can change what the stretch reads or observe what it    *)
(* writes: every read of cancel_requested, every mutex section on the     *)
(* registry, every spawn and every emission is in an action of its own,   *)
(* except where the neighbouring statements touch only thread-local data  *)
(* (e.g. the registry pruning and the counter update of the finally       *)
(* clause, which no other thread reads together).                         *)
(*                                                                         *)
(* The except clause of Worker.run (CalledProcessError, OSError) has no   *)
(* action: nothing in its try body (QThreadPool.start, waitForDone,       *)
(* signal emission) raises these exceptions.                              *)
(*                                                                         *)
(* Specifications, all over the same variables:                           *)
(*   Spec            one dispatch, step by step, with the Cancel button;  *)
(*   CancelSpec      one dispatch whose Worker.cancel() is called         *)
(*                   repeatedly by a caller holding the Worker;           *)
(*   SessionSpec     the Z3950SearchApp session: searches, result         *)
(*                   selection, Next / Previous, NextRecordWorker and the *)
(*                   slots of both workers, the dispatch seen by its      *)
(*                   signals only;                                        *)
(*   NavigationSpec  SessionSpec with MaxNavSearches searches;            *)
(*   SearchSpec      SessionSpec with MaxSearchFetches fetches;           *)
(*   MutexSpec       one dispatch with every section under Worker.mutex   *)
(*                   in two steps (lock taken, body run and lock          *)
(*                   released) and Worker.cancel() called meanwhile;      *)
(*   FetchLiveSpec   SessionSpec with MaxNavSearches searches and         *)
(*                   MaxSearchFetches fetches, where the worker threads   *)
(*                   and the event loop go on running (weak fairness);    *)
(*   UtilsSpec       the functions of utils.py and the evaluation of a    *)
(*                   unit's output, each applied once to an argument      *)
(*                   drawn from a bounded set of texts;                   *)
(*   LoopSpec        the loop of _remove_malformed_dollars, iteration by  *)
(*                   iteration, where the function goes on running.       *)
(* Each leaves the variables of the others at their initial values.       *)
(***************************************************************************)
EXTENDS Integers, Sequences, FiniteSets, TLC

\* ---------------------------------------------------------------- bounds
MaxServers == 2          \* longest server list dispatched
MaxThreadCount == 2      \* largest WorkerConfig.max_threads tried
MaxHits == 1             \* largest hit count a server reports
MaxCancels == 2          \* most calls of Worker.cancel() a direct caller makes
MaxCancelServers == 1    \* longest server list of a dispatch cancelled by a direct caller
MaxMutexServers == 1     \* longest server list of a dispatch of MutexSpec
MaxMutexCancels == 1     \* most calls of Worker.cancel() in a dispatch of MutexSpec
MaxSearches == 2         \* most searches started in one session
MaxNavSearches == 1      \* most searches started in a session of NavigationSpec
MaxFetches == 2          \* most continuation fetches started in one session
MaxSearchFetches == 1    \* most continuation fetches started in a session of SearchSpec
MaxTotal == 2            \* largest hit count of a result shown in the session

VARIABLES
    \* WorkerConfig
    servers,             \* servers[i] = TRUE iff descriptor i has host, port and database
    max_threads,
    \* Worker
    workerPc,            \* position of the worker thread inside Worker.run
    nextServer,          \* index of the `for server in self.servers` loop
    cancel_requested,    \* BaseWorker._cancel_requested
    processes,           \* Worker.processes: units whose Popen handle is registered
    completed_servers,   \* Worker.completed_servers
    poolQueue,           \* runnables handed to QThreadPool.start and not yet running
    \* ServerQueryRunnable, one per server
    pc,                  \* position of unit u inside ServerQueryRunnable.run
    proc,                \* subprocess of unit u: "none", "running", "exited"
    terminated,          \* a terminate request was sent to the subprocess of unit u
    progressLocal,       \* local variable `progress` of unit u
    \* main thread
    mainPc,              \* position of the main thread ("idle" = in the event loop)
    mainCtx,             \* slot the main thread is inside of
    was_canceled,        \* local of _on_worker_finished
    processes_copy,      \* local of Worker.cancel
    worker_ref,          \* worker_manager.worker_info.worker is not None
    progress_bar,        \* ui["progress_bar"].value()
    cancel_button,       \* ui["cancel_button"].isEnabled()
    results_window,      \* items of ui["results_window"]
    mainQueue,           \* queued signal deliveries for the main thread
    \* history
    progress_emitted,    \* every progress emission, in order: its value and the flag then
    results_emitted,     \* number of result_found emissions of unit u
    finished_emitted,    \* every finished emission, in order: the number of progress
                         \* emissions made before it and the flag then
    logs,                \* log_message texts emitted by unit u
    observed,            \* unit u has read cancel_requested as True
    cancel_clicked,      \* the operator pressed Cancel (_cancel_search ran)
    cancel_calls,        \* calls of Worker.cancel() that have returned to a direct caller
    \* Z3950SearchApp: SearchState and navigation
    current_marc_records,    \* search_state.current_marc_records: the ordinal of each cached record
    current_record_index,    \* search_state.current_record_index
    total_records,           \* search_state.total_records
    fetch_in_progress,       \* self.fetch_in_progress
    prev_enabled,            \* ui["prev_record_button"].isEnabled()
    next_enabled,            \* ui["next_record_button"].isEnabled()
    message,                 \* what the handler that ran last told the operator
    dispatch_worker,         \* worker_manager.worker_info.worker (0 = None)
    next_worker,             \* next_record_worker_manager.worker_info.worker (0 = None)
    signal_src,              \* emitter of the signal whose slot the main thread is inside
    \* the Worker of each search of the session
    dispatchPc,              \* "none" (not created), "running", "reported", "done"
    dispatchCancel,          \* its _cancel_requested
    \* the NextRecordWorker of each continuation fetch of the session
    fetchPc,                 \* "none" (not created), "begin", "communicate", "done"
    fetchCancel,             \* its _cancel_requested
    fetchStart,              \* its config.start
    \* utils.py and the evaluation of a unit's output, as functions
    call,                    \* the function called, its argument, and its result once returned
    \* Worker.mutex
    mutex                    \* the threads that hold it

vars == << servers, max_threads, workerPc, nextServer, cancel_requested, processes,
           completed_servers, poolQueue, pc, proc, terminated, progressLocal,
           mainPc, mainCtx, was_canceled, processes_copy, worker_ref, progress_bar,
           cancel_button, results_window, mainQueue, progress_emitted,
           results_emitted, finished_emitted, logs, observed, cancel_clicked,
           cancel_calls, current_marc_records, current_record_index, total_records,
           fetch_in_progress, prev_enabled, next_enabled, message, dispatch_worker,
           next_worker, signal_src, dispatchPc, dispatchCancel,
           fetchPc, fetchCancel, fetchStart, call, mutex >>

emitted == << progress_emitted, results_emitted, finished_emitted >>

workerVars == << workerPc, nextServer, completed_servers, poolQueue >>
unitVars == << pc, proc, terminated, progressLocal, logs, observed >>
mainVars == << mainPc, mainCtx, was_canceled, processes_copy, worker_ref, progress_bar,
               cancel_button, results_window, cancel_clicked >>
configVars == << servers, max_threads >>

\* the session around the dispatcher (Z3950SearchApp), modelled further down
searchState == << current_marc_records, current_record_index, total_records >>
navigation == << prev_enabled, next_enabled >>
sessionWorkers == << dispatchPc, dispatchCancel, fetchPc, fetchCancel, fetchStart >>
sessionVars == << searchState, navigation, fetch_in_progress, message, dispatch_worker,
                  next_worker, signal_src, sessionWorkers, call, mutex >>

Units == 1..Len(servers)

ServerLists == UNION { [1..n -> BOOLEAN] : n \in 0..MaxServers }

\* ------------------------------------------------------------- helpers

\* int((completed_servers / len(servers)) * 100); exact for the list lengths tried
ProgressPercent(completed, total) == (completed * 100) \div total

\* a queued signal delivery for the main thread
Signal(sig, val, src) == [sig |-> sig, val |-> val, src |-> src]

\* self.worker.progress.emit(value) / self.progress.emit(100)
EmitProgress(value) ==
    /\ progress_emitted' = Append(progress_emitted,
                                  [val |-> value, cancelled |-> cancel_requested])
    /\ mainQueue' = Append(mainQueue, Signal("progress", value, 0))
    /\ UNCHANGED << results_emitted, finished_emitted >>

\* self.worker.result_found.emit(result)
EmitResult(u, number_of_hits) ==
    /\ results_emitted' = [results_emitted EXCEPT ![u] = @ + 1]
    /\ mainQueue' = Append(mainQueue, Signal("result_found", number_of_hits, u))
    /\ UNCHANGED << progress_emitted, finished_emitted >>

\* self.finished.emit()
EmitFinished ==
    /\ finished_emitted' = Append(finished_emitted,
                                  [after |-> Len(progress_emitted),
                                   cancelled |-> cancel_requested])
    /\ mainQueue' = Append(mainQueue, Signal("finished", 0, 0))
    /\ UNCHANGED << progress_emitted, results_emitted >>

\* runnables the pool is executing
ActiveUnits == { u \in Units : pc[u] \notin {"idle", "queued", "done"} }

\* faulty variant of PoolHasFreeThread (off by one), for the sensitivity of C10
PoolHasFreeThread_OffByOne == Cardinality(ActiveUnits) <= max_threads

\* QThreadPool: a queued runnable starts only while fewer than maxThreadCount run
PoolHasFreeThread == Cardinality(ActiveUnits) < max_threads

\* faulty variant of PoolDone (returns while runnables still run), for the sensitivity of C7
PoolDone_QueueOnly == poolQueue = << >>

\* QThreadPool.waitForDone(): no runnable queued or running
PoolDone == poolQueue = << >> /\ ActiveUnits = {}

\* ---------------------------------------------------------------- Init
\* no function of the utilities section is being followed
NoCall == [fn |-> "none", arg |-> << >>, returned |-> FALSE, result |-> << >>]

\* Z3950SearchApp.__init__ (SearchState(), fetch_in_progress = False, both
\* navigation buttons disabled, both WorkerManagers empty): no search yet
SessionFresh ==
    /\ current_marc_records = << >>
    /\ current_record_index = 0
    /\ total_records = 0
    /\ fetch_in_progress = FALSE
    /\ prev_enabled = FALSE
    /\ next_enabled = FALSE
    /\ message = "none"
    /\ dispatch_worker = 0
    /\ next_worker = 0
    /\ signal_src = 0
    /\ dispatchPc = [d \in 1..MaxSearches |-> "none"]
    /\ dispatchCancel = [d \in 1..MaxSearches |-> FALSE]
    /\ fetchPc = [f \in 1..MaxFetches |-> "none"]
    /\ fetchCancel = [f \in 1..MaxFetches |-> FALSE]
    /\ fetchStart = [f \in 1..MaxFetches |-> 0]

\* State after _start_search built the Worker (Worker.__init__) and
\* create_worker_thread started its thread; Worker.run has not begun.
Init ==
    /\ servers \in ServerLists
    /\ max_threads \in 1..MaxThreadCount
    /\ workerPc = "begin"
    /\ nextServer = 1
    /\ cancel_requested = FALSE
    /\ processes = {}
    /\ completed_servers = 0
    /\ poolQueue = << >>
    /\ pc = [u \in Units |-> "idle"]
    /\ proc = [u \in Units |-> "none"]
    /\ terminated = [u \in Units |-> FALSE]
    /\ progressLocal = [u \in Units |-> 0]
    /\ mainPc = "idle"
    /\ mainCtx = "none"
    /\ was_canceled = FALSE
    /\ processes_copy = {}
    /\ worker_ref = TRUE
    /\ progress_bar = 0
    /\ cancel_button = TRUE
    /\ results_window = {}
    /\ mainQueue = << >>
    /\ progress_emitted = << >>
    /\ results_emitted = [u \in Units |-> 0]
    /\ finished_emitted = << >>
    /\ logs = [u \in Units |-> << >>]
    /\ observed = [u \in Units |-> FALSE]
    /\ cancel_clicked = FALSE
    /\ cancel_calls = 0
    /\ SessionFresh
    /\ call = NoCall
    /\ mutex = {}

\* ---------------------------------------------------------- Worker.run

\* total_servers == 0: finished.emit(); return (the finally clause still runs)
Worker_run_begin ==
    /\ workerPc = "begin"
    /\ IF Len(servers) = 0
         THEN /\ EmitFinished
              /\ workerPc' = "finally"
         ELSE /\ workerPc' = "loop"
              /\ UNCHANGED << emitted, mainQueue >>
    /\ UNCHANGED << nextServer, cancel_requested, processes, completed_servers, poolQueue >>
    /\ UNCHANGED << unitVars, mainVars, configVars, sessionVars, cancel_calls >>

\* one iteration of `for server in self.servers`: break on cancel, else threadpool.start
Worker_run_loop ==
    /\ workerPc = "loop"
    /\ IF cancel_requested
         THEN /\ workerPc' = "wait"
              /\ UNCHANGED << nextServer, poolQueue, pc >>
         ELSE /\ poolQueue' = Append(poolQueue, nextServer)
              /\ pc' = [pc EXCEPT ![nextServer] = "queued"]
              /\ nextServer' = nextServer + 1
              /\ workerPc' = IF nextServer = Len(servers) THEN "wait" ELSE "loop"
    /\ UNCHANGED << cancel_requested, processes, completed_servers, emitted, mainQueue >>
    /\ UNCHANGED << proc, terminated, progressLocal, logs, observed, mainVars, configVars, sessionVars, cancel_calls >>

\* self.threadpool.waitForDone()
Worker_run_waitForDone ==
    /\ workerPc = "wait"
    /\ PoolDone
    /\ workerPc' = "check"
    /\ UNCHANGED << nextServer, cancel_requested, processes, completed_servers, poolQueue >>
    /\ UNCHANGED << emitted, mainQueue, unitVars, mainVars, configVars, sessionVars, cancel_calls >>

\* if not self.cancel_requested:
Worker_run_check ==
    /\ workerPc = "check"
    /\ workerPc' = IF cancel_requested THEN "finally" ELSE "emit100"
    /\ UNCHANGED << nextServer, cancel_requested, processes, completed_servers, poolQueue >>
    /\ UNCHANGED << emitted, mainQueue, unitVars, mainVars, configVars, sessionVars, cancel_calls >>

\*     self.progress.emit(100)
Worker_run_emit100 ==
    /\ workerPc = "emit100"
    /\ EmitProgress(100)
    /\ workerPc' = "finally"
    /\ UNCHANGED << nextServer, cancel_requested, processes, completed_servers, poolQueue >>
    /\ UNCHANGED << unitVars, mainVars, configVars, sessionVars, cancel_calls >>

\* finally: self._cleanup_processes() (every registered process still running is
\* terminated, the registry cleared); self.finished.emit()
Worker_run_finally ==
    /\ workerPc = "finally"
    /\ proc' = [u \in Units |-> IF u \in processes /\ proc[u] = "running"
                                  THEN "exited" ELSE proc[u]]
    /\ terminated' = [u \in Units |-> terminated[u] \/ (u \in processes /\ proc[u] = "running")]
    /\ processes' = {}
    /\ EmitFinished
    /\ workerPc' = "done"
    /\ UNCHANGED << nextServer, cancel_requested, completed_servers, poolQueue >>
    /\ UNCHANGED << pc, progressLocal, logs, observed, mainVars, configVars, sessionVars, cancel_calls >>

\* ------------------------------------------------------------ QThreadPool

\* the pool takes the oldest queued runnable when a thread is free
QThreadPool_run(u) ==
    /\ poolQueue # << >>
    /\ Head(poolQueue) = u
    /\ PoolHasFreeThread
    /\ poolQueue' = Tail(poolQueue)
    /\ pc' = [pc EXCEPT ![u] = "start"]
    /\ UNCHANGED << workerPc, nextServer, cancel_requested, processes, completed_servers >>
    /\ UNCHANGED << emitted, mainQueue, proc, terminated, progressLocal, logs, observed >>
    /\ UNCHANGED << mainVars, configVars, sessionVars, cancel_calls >>

\* -------------------------------------------------- ServerQueryRunnable.run

\* what yaz-client answered: exit code, whether stdout is blank, and the
\* "Number of hits:" line (absent, not an integer, or carrying the integer `hits`)
Responses == { r \in [returncode : {0, 1}, blank : BOOLEAN,
                      hitsLine : {"absent", "garbled", "number"}, hits : 0..MaxHits] :
                  /\ r.blank => r.hitsLine = "absent"
                  /\ r.hitsLine # "number" => r.hits = 0 }

\* _extract_hits: the integer of the hits line, 0 when there is none or it does not parse
ExtractHits(r) == IF r.hitsLine = "number" THEN r.hits ELSE 0

\* if self.worker.cancel_requested: return; _prepare_command (None on a missing key: return)
Runnable_run_start(u) ==
    /\ pc[u] = "start"
    /\ IF cancel_requested
         THEN /\ observed' = [observed EXCEPT ![u] = TRUE]
              /\ pc' = [pc EXCEPT ![u] = "done"]
              /\ UNCHANGED logs
         ELSE IF ~servers[u]
         THEN /\ logs' = [logs EXCEPT ![u] = Append(@, "missing_key")]
              /\ pc' = [pc EXCEPT ![u] = "done"]
              /\ UNCHANGED observed
         ELSE /\ logs' = [logs EXCEPT ![u] = Append(@, "connecting")]
              /\ pc' = [pc EXCEPT ![u] = "spawn"]
              /\ UNCHANGED observed
    /\ UNCHANGED << workerVars, cancel_requested, processes, emitted, mainQueue >>
    /\ UNCHANGED << proc, terminated, progressLocal, mainVars, configVars, sessionVars, cancel_calls >>

\* subprocess.Popen(...): the child runs; or OSError is raised and the except
\* clause logs it unless cancel was requested
Runnable_run_popen(u) ==
    /\ pc[u] = "spawn"
    /\ \/ /\ proc' = [proc EXCEPT ![u] = "running"]
          /\ pc' = [pc EXCEPT ![u] = "register"]
          /\ UNCHANGED << logs, observed >>
       \/ /\ IF cancel_requested
               THEN /\ observed' = [observed EXCEPT ![u] = TRUE]
                    /\ UNCHANGED logs
               ELSE /\ logs' = [logs EXCEPT ![u] = Append(@, "error")]
                    /\ UNCHANGED observed
          /\ pc' = [pc EXCEPT ![u] = "finally"]
          /\ UNCHANGED proc
    /\ UNCHANGED << workerVars, cancel_requested, processes, emitted, mainQueue >>
    /\ UNCHANGED << terminated, progressLocal, mainVars, configVars, sessionVars, cancel_calls >>

\* with QMutexLocker(mutex): self.worker.processes.append(process)
Runnable_run_register(u) ==
    /\ pc[u] = "register"
    /\ processes' = processes \cup {u}
    /\ pc' = [pc EXCEPT ![u] = "communicate"]
    /\ UNCHANGED << workerVars, cancel_requested, emitted, mainQueue >>
    /\ UNCHANGED << proc, terminated, progressLocal, logs, observed, mainVars, configVars, sessionVars, cancel_calls >>

\* faulty variant of Runnable_run_timeout (the `return` is missing: the unit
\* falls through to the exit-code test and logs again), for the sensitivity of C9
Runnable_run_timeout_NoReturn(u) ==
    /\ pc[u] = "communicate"
    /\ proc[u] = "running"
    /\ proc' = [proc EXCEPT ![u] = "exited"]
    /\ terminated' = [terminated EXCEPT ![u] = TRUE]
    /\ logs' = [logs EXCEPT ![u] = Append(Append(@, "timeout"), "no_records")]
    /\ pc' = [pc EXCEPT ![u] = "finally"]
    /\ UNCHANGED << workerVars, cancel_requested, processes, emitted, mainQueue >>
    /\ UNCHANGED << progressLocal, observed, mainVars, configVars, sessionVars, cancel_calls >>

\* except subprocess.TimeoutExpired: process.terminate(); log; return
Runnable_run_timeout(u) ==
    /\ pc[u] = "communicate"
    /\ proc[u] = "running"
    /\ proc' = [proc EXCEPT ![u] = "exited"]
    /\ terminated' = [terminated EXCEPT ![u] = TRUE]
    /\ logs' = [logs EXCEPT ![u] = Append(@, "timeout")]
    /\ pc' = [pc EXCEPT ![u] = "finally"]
    /\ UNCHANGED << workerVars, cancel_requested, processes, emitted, mainQueue >>
    /\ UNCHANGED << progressLocal, observed, mainVars, configVars, sessionVars, cancel_calls >>

\* if process.returncode == 0 and stdout.strip(): ... _emit_result or "No records found"
\* (for an output clean_yaz_output returns for; evaluate_output, further down,
\* follows the output it raises ValueError for)
Evaluate(u) ==
    \E r \in Responses :
        IF r.returncode = 0 /\ ~r.blank /\ ExtractHits(r) > 0
          THEN /\ EmitResult(u, ExtractHits(r))
               /\ UNCHANGED logs
          ELSE /\ logs' = [logs EXCEPT ![u] = Append(@, "no_records")]
               /\ UNCHANGED << emitted, mainQueue >>

\* faulty variant of Runnable_run_communicate (the `return` after the flag test
\* is missing, the unit goes on to emit), for the sensitivity of C6
Runnable_run_communicate_NoReturn(u) ==
    /\ pc[u] = "communicate"
    /\ proc' = [proc EXCEPT ![u] = "exited"]
    /\ IF cancel_requested
         THEN /\ observed' = [observed EXCEPT ![u] = TRUE]
              /\ terminated' = [terminated EXCEPT ![u] = TRUE]
         ELSE UNCHANGED << observed, terminated >>
    /\ Evaluate(u)
    /\ pc' = [pc EXCEPT ![u] = "finally"]
    /\ UNCHANGED << workerVars, cancel_requested, processes >>
    /\ UNCHANGED << progressLocal, mainVars, configVars, sessionVars, cancel_calls >>

\* process.communicate(...) returns, the child having exited by itself or
\* terminated; `if self.worker.cancel_requested: process.terminate(); return`;
\* otherwise the output is evaluated
Runnable_run_communicate(u) ==
    /\ pc[u] = "communicate"
    /\ proc' = [proc EXCEPT ![u] = "exited"]
    /\ IF cancel_requested
         THEN /\ observed' = [observed EXCEPT ![u] = TRUE]
              /\ terminated' = [terminated EXCEPT ![u] = TRUE]
              /\ UNCHANGED << logs, emitted, mainQueue >>
         ELSE /\ Evaluate(u)
              /\ UNCHANGED << observed, terminated >>
    /\ pc' = [pc EXCEPT ![u] = "finally"]
    /\ UNCHANGED << workerVars, cancel_requested, processes >>
    /\ UNCHANGED << progressLocal, mainVars, configVars, sessionVars, cancel_calls >>

\* finally, under the mutex: processes = [p for p in processes if p.poll() is None];
\* completed_servers += 1; progress = int(completed_servers / len(servers) * 100)
Runnable_run_finally(u) ==
    /\ pc[u] = "finally"
    /\ processes' = { p \in processes : proc[p] = "running" }
    /\ completed_servers' = completed_servers + 1
    /\ progressLocal' = [progressLocal EXCEPT
                           ![u] = ProgressPercent(completed_servers + 1, Len(servers))]
    /\ pc' = [pc EXCEPT ![u] = "emit"]
    /\ UNCHANGED << workerPc, nextServer, poolQueue, cancel_requested >>
    /\ UNCHANGED << emitted, mainQueue, proc, terminated, logs, observed, mainVars, configVars, sessionVars, cancel_calls >>

\* finally: self.worker.progress.emit(progress)
Runnable_run_emit(u) ==
    /\ pc[u] = "emit"
    /\ EmitProgress(progressLocal[u])
    /\ progressLocal' = [progressLocal EXCEPT ![u] = 0]
    /\ pc' = [pc EXCEPT ![u] = "done"]
    /\ UNCHANGED << workerVars, cancel_requested, processes >>
    /\ UNCHANGED << proc, terminated, logs, observed, mainVars, configVars, sessionVars, cancel_calls >>

\* ------------------------------------------------------------ main thread

\* _toggle_search_buttons(True) and the progress bar of _search_finished(was_canceled)
SearchFinishedBar(canceled) == IF canceled THEN 0 ELSE 100

\* slot of `progress`: ui["progress_bar"].setValue
Main_progress_setValue ==
    /\ mainPc = "idle"
    /\ mainQueue # << >>
    /\ Head(mainQueue).sig = "progress"
    /\ progress_bar' = Head(mainQueue).val
    /\ mainQueue' = Tail(mainQueue)
    /\ UNCHANGED << mainPc, mainCtx, was_canceled, processes_copy, worker_ref >>
    /\ UNCHANGED << cancel_button, results_window, cancel_clicked >>
    /\ UNCHANGED << workerVars, cancel_requested, processes, emitted, unitVars, configVars, sessionVars, cancel_calls >>

\* slot of `result_found`: _display_result
Main_display_result ==
    /\ mainPc = "idle"
    /\ mainQueue # << >>
    /\ Head(mainQueue).sig = "result_found"
    /\ results_window' = results_window \cup
                            { [server |-> Head(mainQueue).src,
                               number_of_hits |-> Head(mainQueue).val] }
    /\ mainQueue' = Tail(mainQueue)
    /\ UNCHANGED << mainPc, mainCtx, was_canceled, processes_copy, worker_ref >>
    /\ UNCHANGED << progress_bar, cancel_button, cancel_clicked >>
    /\ UNCHANGED << workerVars, cancel_requested, processes, emitted, unitVars, configVars, sessionVars, cancel_calls >>

\* slot of `finished`: _on_worker_finished up to cleanup_worker_thread's
\* isRunning() test; a thread that is not running is dropped at once and
\* _search_finished runs, a running one is cancelled first (Worker.cancel sets
\* the flag).  The thread can have stopped only after Worker.run returned.
Main_on_worker_finished ==
    /\ mainPc = "idle"
    /\ mainQueue # << >>
    /\ Head(mainQueue).sig = "finished"
    /\ mainQueue' = Tail(mainQueue)
    /\ LET canceled == IF worker_ref THEN cancel_requested ELSE TRUE IN
       \E isRunning \in BOOLEAN :
          /\ workerPc # "done" => isRunning
          /\ IF worker_ref /\ isRunning
               THEN /\ cancel_requested' = TRUE
                    /\ was_canceled' = canceled
                    /\ mainPc' = "cancel_copy"
                    /\ mainCtx' = "on_worker_finished"
                    /\ UNCHANGED << worker_ref, progress_bar, cancel_button >>
               ELSE /\ worker_ref' = FALSE
                    /\ progress_bar' = SearchFinishedBar(canceled)
                    /\ cancel_button' = FALSE
                    /\ UNCHANGED << cancel_requested, was_canceled, mainPc, mainCtx >>
    /\ UNCHANGED << processes_copy, results_window, cancel_clicked >>
    /\ UNCHANGED << workerVars, processes, emitted, unitVars, configVars, sessionVars, cancel_calls >>

\* the Cancel button: _cancel_search up to cleanup_worker_thread's isRunning() test
\* (the thread runs until a `finished` delivery has quit it)
Main_cancel_search ==
    /\ mainPc = "idle"
    /\ cancel_button
    /\ cancel_clicked' = TRUE
    /\ IF worker_ref
         THEN /\ cancel_requested' = TRUE
              /\ mainPc' = "cancel_copy"
              /\ mainCtx' = "cancel_search"
              /\ UNCHANGED << progress_bar, cancel_button >>
         ELSE /\ progress_bar' = 0
              /\ cancel_button' = FALSE
              /\ UNCHANGED << cancel_requested, mainPc, mainCtx >>
    /\ UNCHANGED << was_canceled, processes_copy, worker_ref, results_window, mainQueue >>
    /\ UNCHANGED << workerVars, processes, emitted, unitVars, configVars, sessionVars, cancel_calls >>

\* Worker.cancel: with QMutexLocker(mutex): processes_copy = self.processes.copy()
Worker_cancel_copy ==
    /\ mainPc = "cancel_copy"
    /\ processes_copy' = processes
    /\ mainPc' = "cancel_terminate"
    /\ UNCHANGED << mainCtx, was_canceled, worker_ref, progress_bar, cancel_button >>
    /\ UNCHANGED << results_window, cancel_clicked, mainQueue >>
    /\ UNCHANGED << workerVars, cancel_requested, processes, emitted, unitVars, configVars, sessionVars, cancel_calls >>

\* faulty variant of Worker_cancel_terminate (the poll() test is missing: every
\* handle of the snapshot is terminated again, and the registry is left as it
\* is), for the sensitivity of C13
Worker_cancel_terminate_NoPoll ==
    /\ mainPc = "cancel_terminate"
    /\ proc' = [u \in Units |-> IF u \in processes_copy /\ proc[u] = "running"
                                  THEN "exited" ELSE proc[u]]
    /\ terminated' = [u \in Units |-> terminated[u] \/ u \in processes_copy]
    /\ processes_copy' = {}
    /\ mainPc' = "thread_wait"
    /\ UNCHANGED << mainCtx, was_canceled, worker_ref, progress_bar, processes >>
    /\ UNCHANGED << cancel_button, results_window, cancel_clicked, mainQueue >>
    /\ UNCHANGED << workerVars, cancel_requested, emitted >>
    /\ UNCHANGED << pc, progressLocal, logs, observed, configVars, sessionVars, cancel_calls >>

\* Worker.cancel: for process in processes_copy: if process.poll() is None:
\* terminate_process; then with QMutexLocker(mutex): self.processes.clear()
Worker_cancel_terminate ==
    /\ mainPc = "cancel_terminate"
    /\ proc' = [u \in Units |-> IF u \in processes_copy /\ proc[u] = "running"
                                  THEN "exited" ELSE proc[u]]
    /\ terminated' = [u \in Units |->
                        terminated[u] \/ (u \in processes_copy /\ proc[u] = "running")]
    /\ processes' = {}
    /\ processes_copy' = {}
    /\ mainPc' = "thread_wait"
    /\ UNCHANGED << mainCtx, was_canceled, worker_ref, progress_bar >>
    /\ UNCHANGED << cancel_button, results_window, cancel_clicked, mainQueue >>
    /\ UNCHANGED << workerVars, cancel_requested, emitted >>
    /\ UNCHANGED << pc, progressLocal, logs, observed, configVars, sessionVars, cancel_calls >>

\* cleanup_worker_thread: thread.quit(); thread.wait(); worker = thread = None,
\* then the rest of the slot that called it
Main_thread_wait ==
    /\ mainPc = "thread_wait"
    /\ workerPc = "done"
    /\ worker_ref' = FALSE
    /\ progress_bar' = IF mainCtx = "cancel_search" THEN 0
                       ELSE SearchFinishedBar(was_canceled)
    /\ cancel_button' = FALSE
    /\ mainPc' = "idle"
    /\ mainCtx' = "none"
    /\ was_canceled' = FALSE
    /\ UNCHANGED << processes_copy, results_window, cancel_clicked, mainQueue >>
    /\ UNCHANGED << workerVars, cancel_requested, processes, emitted, unitVars, configVars, sessionVars, cancel_calls >>

\* ---------------------------------------------------------------- Next

Next ==
    \/ Worker_run_begin
    \/ Worker_run_loop
    \/ Worker_run_waitForDone
    \/ Worker_run_check
    \/ Worker_run_emit100
    \/ Worker_run_finally
    \/ \E u \in Units : QThreadPool_run(u)
    \/ \E u \in Units : Runnable_run_start(u)
    \/ \E u \in Units : Runnable_run_popen(u)
    \/ \E u \in Units : Runnable_run_register(u)
    \/ \E u \in Units : Runnable_run_communicate(u)
    \/ \E u \in Units : Runnable_run_timeout(u)
    \/ \E u \in Units : Runnable_run_finally(u)
    \/ \E u \in Units : Runnable_run_emit(u)
    \/ Main_progress_setValue
    \/ Main_display_result
    \/ Main_on_worker_finished
    \/ Main_cancel_search
    \/ Worker_cancel_copy
    \/ Worker_cancel_terminate
    \/ Main_thread_wait

Spec == Init /\ [][Next]_vars

\* ------------------------------------------- Worker.cancel, called directly

\* A caller that holds the Worker itself (not through WorkerManager, which
\* drops its reference after one call) calls cancel() any number of times
\* while Worker.run executes.  The worker and unit actions are those above.

\* Worker.cancel: self._cancel_requested = True (BaseWorker.cancel via the override)
Caller_cancel ==
    /\ mainPc = "idle"
    /\ cancel_calls < MaxCancels
    /\ cancel_requested' = TRUE
    /\ mainPc' = "cancel_copy"
    /\ mainCtx' = "caller"
    /\ UNCHANGED << was_canceled, processes_copy, worker_ref, progress_bar, cancel_button >>
    /\ UNCHANGED << results_window, cancel_clicked, mainQueue >>
    /\ UNCHANGED << workerVars, processes, emitted, unitVars, configVars, sessionVars >>
    /\ UNCHANGED cancel_calls

\* Worker.cancel returns to its caller
Caller_cancel_return ==
    /\ mainPc = "thread_wait"
    /\ mainCtx = "caller"
    /\ mainPc' = "idle"
    /\ mainCtx' = "none"
    /\ cancel_calls' = cancel_calls + 1
    /\ UNCHANGED << was_canceled, processes_copy, worker_ref, progress_bar, cancel_button >>
    /\ UNCHANGED << results_window, cancel_clicked, mainQueue, cancel_requested >>
    /\ UNCHANGED << workerVars, processes, emitted, unitVars, configVars, sessionVars >>

\* a step of the worker thread or of a pool thread
WorkerSide ==
    \/ Worker_run_begin
    \/ Worker_run_loop
    \/ Worker_run_waitForDone
    \/ Worker_run_check
    \/ Worker_run_emit100
    \/ Worker_run_finally
    \/ \E u \in Units : QThreadPool_run(u)
    \/ \E u \in Units : Runnable_run_start(u)
    \/ \E u \in Units : Runnable_run_popen(u)
    \/ \E u \in Units : Runnable_run_register(u)
    \/ \E u \in Units : Runnable_run_communicate(u)
    \/ \E u \in Units : Runnable_run_timeout(u)
    \/ \E u \in Units : Runnable_run_finally(u)
    \/ \E u \in Units : Runnable_run_emit(u)

CancelNext ==
    \/ Worker_run_begin
    \/ Worker_run_loop
    \/ Worker_run_waitForDone
    \/ Worker_run_check
    \/ Worker_run_emit100
    \/ Worker_run_finally
    \/ \E u \in Units : QThreadPool_run(u)
    \/ \E u \in Units : Runnable_run_start(u)
    \/ \E u \in Units : Runnable_run_popen(u)
    \/ \E u \in Units : Runnable_run_register(u)
    \/ \E u \in Units : Runnable_run_communicate(u)
    \/ \E u \in Units : Runnable_run_timeout(u)
    \/ \E u \in Units : Runnable_run_finally(u)
    \/ \E u \in Units : Runnable_run_emit(u)
    \/ Caller_cancel
    \/ Worker_cancel_copy
    \/ Worker_cancel_terminate
    \/ Caller_cancel_return

\* as Init, a Worker built and its thread started, for the shorter server lists
CancelInit == Init /\ Len(servers) <= MaxCancelServers

CancelSpec == CancelInit /\ [][CancelNext]_vars

\* --------------------------------------------------- Worker.mutex, step by step

\* The dispatch again, with every `with QMutexLocker(self.mutex)` block of
\* workers.py in two steps: the lock is taken (QMutexLocker.__init__ blocks
\* while another thread holds it), then the block's body runs and the lock is
\* released at the end of the block.  The statements outside these blocks are
\* the actions of Spec and CancelSpec; Worker.cancel() is called by a caller
\* holding the Worker, as in CancelSpec.

\* the threads of a dispatch: the pool thread running unit u, the worker
\* QThread, the main thread
UnitThread(u) == << "unit", u >>
WorkerThread == << "worker", 0 >>
MainThread == << "main", 0 >>

\* QMutex.lock(), QMutex.unlock()
Lock(thread) == mutex = {} /\ mutex' = {thread}
Unlock(thread) == mutex' = mutex \ {thread}

\* ServerQueryRunnable.run: with QMutexLocker(self.worker.mutex):
Runnable_register_lock(u) ==
    /\ pc[u] = "register"
    /\ Lock(UnitThread(u))
    /\ pc' = [pc EXCEPT ![u] = "register_locked"]
    /\ UNCHANGED << workerVars, cancel_requested, processes, emitted, mainQueue >>
    /\ UNCHANGED << proc, terminated, progressLocal, logs, observed, mainVars, configVars >>
    /\ UNCHANGED << searchState, navigation, fetch_in_progress, message, dispatch_worker >>
    /\ UNCHANGED << next_worker, signal_src, sessionWorkers, call, cancel_calls >>

\*     self.worker.processes.append(process)
Runnable_register_append(u) ==
    /\ pc[u] = "register_locked"
    /\ processes' = processes \cup {u}
    /\ Unlock(UnitThread(u))
    /\ pc' = [pc EXCEPT ![u] = "communicate"]
    /\ UNCHANGED << workerVars, cancel_requested, emitted, mainQueue >>
    /\ UNCHANGED << proc, terminated, progressLocal, logs, observed, mainVars, configVars >>
    /\ UNCHANGED << searchState, navigation, fetch_in_progress, message, dispatch_worker >>
    /\ UNCHANGED << next_worker, signal_src, sessionWorkers, call, cancel_calls >>

\* faulty variant of Runnable_finally_lock (the registry is pruned without
\* the mutex), for the sensitivity of C32
Runnable_finally_lock_Skipped(u) ==
    /\ pc[u] = "finally"
    /\ pc' = [pc EXCEPT ![u] = "prune_locked"]
    /\ UNCHANGED mutex
    /\ UNCHANGED << workerVars, cancel_requested, processes, emitted, mainQueue >>
    /\ UNCHANGED << proc, terminated, progressLocal, logs, observed, mainVars, configVars >>
    /\ UNCHANGED << searchState, navigation, fetch_in_progress, message, dispatch_worker >>
    /\ UNCHANGED << next_worker, signal_src, sessionWorkers, call, cancel_calls >>

\* finally: with QMutexLocker(self.worker.mutex):
Runnable_finally_lock(u) ==
    /\ pc[u] = "finally"
    /\ Lock(UnitThread(u))
    /\ pc' = [pc EXCEPT ![u] = "prune_locked"]
    /\ UNCHANGED << workerVars, cancel_requested, processes, emitted, mainQueue >>
    /\ UNCHANGED << proc, terminated, progressLocal, logs, observed, mainVars, configVars >>
    /\ UNCHANGED << searchState, navigation, fetch_in_progress, message, dispatch_worker >>
    /\ UNCHANGED << next_worker, signal_src, sessionWorkers, call, cancel_calls >>

\*     self.worker.processes = [p for p in self.worker.processes if p.poll() is None]
Runnable_finally_prune(u) ==
    /\ pc[u] = "prune_locked"
    /\ processes' = { p \in processes : proc[p] = "running" }
    /\ Unlock(UnitThread(u))
    /\ pc' = [pc EXCEPT ![u] = "count"]
    /\ UNCHANGED << workerVars, cancel_requested, emitted, mainQueue >>
    /\ UNCHANGED << proc, terminated, progressLocal, logs, observed, mainVars, configVars >>
    /\ UNCHANGED << searchState, navigation, fetch_in_progress, message, dispatch_worker >>
    /\ UNCHANGED << next_worker, signal_src, sessionWorkers, call, cancel_calls >>

\* with QMutexLocker(self.worker.mutex):
Runnable_count_lock(u) ==
    /\ pc[u] = "count"
    /\ Lock(UnitThread(u))
    /\ pc' = [pc EXCEPT ![u] = "count_locked"]
    /\ UNCHANGED << workerVars, cancel_requested, processes, emitted, mainQueue >>
    /\ UNCHANGED << proc, terminated, progressLocal, logs, observed, mainVars, configVars >>
    /\ UNCHANGED << searchState, navigation, fetch_in_progress, message, dispatch_worker >>
    /\ UNCHANGED << next_worker, signal_src, sessionWorkers, call, cancel_calls >>

\*     self.worker.completed_servers += 1; progress = int(... * 100)
Runnable_count(u) ==
    /\ pc[u] = "count_locked"
    /\ completed_servers' = completed_servers + 1
    /\ progressLocal' = [progressLocal EXCEPT
                           ![u] = ProgressPercent(completed_servers + 1, Len(servers))]
    /\ Unlock(UnitThread(u))
    /\ pc' = [pc EXCEPT ![u] = "emit"]
    /\ UNCHANGED << workerPc, nextServer, poolQueue, cancel_requested, processes >>
    /\ UNCHANGED << emitted, mainQueue, proc, terminated, logs, observed, mainVars, configVars >>
    /\ UNCHANGED << searchState, navigation, fetch_in_progress, message, dispatch_worker >>
    /\ UNCHANGED << next_worker, signal_src, sessionWorkers, call, cancel_calls >>

\* Worker._cleanup_processes: with QMutexLocker(self.mutex):
Worker_cleanup_lock ==
    /\ workerPc = "finally"
    /\ Lock(WorkerThread)
    /\ workerPc' = "cleanup_locked"
    /\ UNCHANGED << nextServer, completed_servers, poolQueue, cancel_requested, processes >>
    /\ UNCHANGED << emitted, mainQueue, unitVars, mainVars, configVars >>
    /\ UNCHANGED << searchState, navigation, fetch_in_progress, message, dispatch_worker >>
    /\ UNCHANGED << next_worker, signal_src, sessionWorkers, call, cancel_calls >>

\*     for process in self.processes: if process.poll() is None:
\*         terminate_process(process); self.processes.clear()
Worker_cleanup_processes ==
    /\ workerPc = "cleanup_locked"
    /\ proc' = [u \in Units |-> IF u \in processes /\ proc[u] = "running"
                                  THEN "exited" ELSE proc[u]]
    /\ terminated' = [u \in Units |-> terminated[u] \/ (u \in processes /\ proc[u] = "running")]
    /\ processes' = {}
    /\ Unlock(WorkerThread)
    /\ workerPc' = "emit_finished"
    /\ UNCHANGED << nextServer, completed_servers, poolQueue, cancel_requested >>
    /\ UNCHANGED << emitted, mainQueue, pc, progressLocal, logs, observed, mainVars, configVars >>
    /\ UNCHANGED << searchState, navigation, fetch_in_progress, message, dispatch_worker >>
    /\ UNCHANGED << next_worker, signal_src, sessionWorkers, call, cancel_calls >>

\* Worker.run, finally: self.finished.emit()
Worker_run_emit_finished ==
    /\ workerPc = "emit_finished"
    /\ EmitFinished
    /\ workerPc' = "done"
    /\ UNCHANGED << nextServer, completed_servers, poolQueue, cancel_requested, processes >>
    /\ UNCHANGED << unitVars, mainVars, configVars, sessionVars, cancel_calls >>

\* Worker.cancel: with QMutexLocker(self.mutex):
Worker_cancel_copy_lock ==
    /\ mainPc = "cancel_copy"
    /\ Lock(MainThread)
    /\ mainPc' = "cancel_copy_locked"
    /\ UNCHANGED << mainCtx, was_canceled, processes_copy, worker_ref, progress_bar >>
    /\ UNCHANGED << cancel_button, results_window, cancel_clicked, mainQueue >>
    /\ UNCHANGED << workerVars, cancel_requested, processes, emitted, unitVars, configVars >>
    /\ UNCHANGED << searchState, navigation, fetch_in_progress, message, dispatch_worker >>
    /\ UNCHANGED << next_worker, signal_src, sessionWorkers, call, cancel_calls >>

\*     processes_copy = self.processes.copy()
Worker_cancel_snapshot ==
    /\ mainPc = "cancel_copy_locked"
    /\ processes_copy' = processes
    /\ Unlock(MainThread)
    /\ mainPc' = "cancel_terminate"
    /\ UNCHANGED << mainCtx, was_canceled, worker_ref, progress_bar >>
    /\ UNCHANGED << cancel_button, results_window, cancel_clicked, mainQueue >>
    /\ UNCHANGED << workerVars, cancel_requested, processes, emitted, unitVars, configVars >>
    /\ UNCHANGED << searchState, navigation, fetch_in_progress, message, dispatch_worker >>
    /\ UNCHANGED << next_worker, signal_src, sessionWorkers, call, cancel_calls >>

\* for process in processes_copy: if process.poll() is None: terminate_process
Worker_cancel_terminate_copy ==
    /\ mainPc = "cancel_terminate"
    /\ proc' = [u \in Units |-> IF u \in processes_copy /\ proc[u] = "running"
                                  THEN "exited" ELSE proc[u]]
    /\ terminated' = [u \in Units |->
                        terminated[u] \/ (u \in processes_copy /\ proc[u] = "running")]
    /\ mainPc' = "cancel_clear"
    /\ UNCHANGED << mainCtx, was_canceled, processes_copy, worker_ref, progress_bar >>
    /\ UNCHANGED << cancel_button, results_window, cancel_clicked, mainQueue >>
    /\ UNCHANGED << workerVars, cancel_requested, processes, emitted >>
    /\ UNCHANGED << pc, progressLocal, logs, observed, configVars, sessionVars, cancel_calls >>

\* with QMutexLocker(self.mutex):
Worker_cancel_clear_lock ==
    /\ mainPc = "cancel_clear"
    /\ Lock(MainThread)
    /\ mainPc' = "cancel_clear_locked"
    /\ UNCHANGED << mainCtx, was_canceled, processes_copy, worker_ref, progress_bar >>
    /\ UNCHANGED << cancel_button, results_window, cancel_clicked, mainQueue >>
    /\ UNCHANGED << workerVars, cancel_requested, processes, emitted, unitVars, configVars >>
    /\ UNCHANGED << searchState, navigation, fetch_in_progress, message, dispatch_worker >>
    /\ UNCHANGED << next_worker, signal_src, sessionWorkers, call, cancel_calls >>

\*     self.processes.clear()
Worker_cancel_clear ==
    /\ mainPc = "cancel_clear_locked"
    /\ processes' = {}
    /\ processes_copy' = {}
    /\ Unlock(MainThread)
    /\ mainPc' = "thread_wait"
    /\ UNCHANGED << mainCtx, was_canceled, worker_ref, progress_bar >>
    /\ UNCHANGED << cancel_button, results_window, cancel_clicked, mainQueue >>
    /\ UNCHANGED << workerVars, cancel_requested, emitted, unitVars, configVars >>
    /\ UNCHANGED << searchState, navigation, fetch_in_progress, message, dispatch_worker >>
    /\ UNCHANGED << next_worker, signal_src, sessionWorkers, call, cancel_calls >>

MutexNext ==
    \/ Worker_run_begin
    \/ Worker_run_loop
    \/ Worker_run_waitForDone
    \/ Worker_run_check
    \/ Worker_run_emit100
    \/ Worker_cleanup_lock
    \/ Worker_cleanup_processes
    \/ Worker_run_emit_finished
    \/ \E u \in Units : QThreadPool_run(u)
    \/ \E u \in Units : Runnable_run_start(u)
    \/ \E u \in Units : Runnable_run_popen(u)
    \/ \E u \in Units : Runnable_register_lock(u)
    \/ \E u \in Units : Runnable_register_append(u)
    \/ \E u \in Units : Runnable_run_communicate(u)
    \/ \E u \in Units : Runnable_run_timeout(u)
    \/ \E u \in Units : Runnable_finally_lock(u)
    \/ \E u \in Units : Runnable_finally_prune(u)
    \/ \E u \in Units : Runnable_count_lock(u)
    \/ \E u \in Units : Runnable_count(u)
    \/ \E u \in Units : Runnable_run_emit(u)
    \/ (Caller_cancel /\ cancel_calls < MaxMutexCancels)
    \/ Worker_cancel_copy_lock
    \/ Worker_cancel_snapshot
    \/ Worker_cancel_terminate_copy
    \/ Worker_cancel_clear_lock
    \/ Worker_cancel_clear
    \/ Caller_cancel_return

\* as Init, a Worker built and its thread started
MutexInit == Init /\ Len(servers) <= MaxMutexServers

MutexSpec == MutexInit /\ [][MutexNext]_vars

\* the steps that read, change or iterate over Worker.processes, by thread
RegistryAccess(thread) ==
    \/ \E u \in Units : /\ thread = UnitThread(u)
                         /\ (Runnable_register_append(u) \/ Runnable_finally_prune(u))
    \/ thread = WorkerThread /\ Worker_cleanup_processes
    \/ thread = MainThread /\ (Worker_cancel_snapshot \/ Worker_cancel_clear)

Threads == { UnitThread(u) : u \in Units } \cup {WorkerThread, MainThread}

\* ------------------------------------------------- the session (main.py)

\* Z3950SearchApp around the dispatcher: the SearchState, the navigation
\* buttons, the two WorkerManagers and the slots of both workers' signals.
\* Here a Worker is seen from outside, by the signals Worker.run sends for a
\* non-empty server list (_start_search refuses an empty one): result_found
\* any time before its end, then `finished` once.  The NextRecordWorker is
\* modelled step by step.  Clicks are handled in any order relative to the
\* queued signals: Qt does not order user input against posted events.

\* variables of the dispatcher's own model, which the session leaves alone
dispatcherVars == << servers, max_threads, workerPc, nextServer, cancel_requested,
                     processes, completed_servers, poolQueue, pc, proc, terminated,
                     progressLocal, processes_copy, worker_ref, progress_emitted,
                     results_emitted, finished_emitted, logs, observed, cancel_clicked,
                     cancel_calls, call, mutex >>

Dispatches == 1..MaxSearches
Fetches == 1..MaxFetches

\* the Worker the next _start_search builds, the NextRecordWorker the next fetch builds
NextDispatch == CHOOSE d \in Dispatches :
                    dispatchPc[d] = "none" /\ \A e \in 1..(d - 1) : dispatchPc[e] # "none"
NextFetch == CHOOSE f \in Fetches :
                 fetchPc[f] = "none" /\ \A e \in 1..(f - 1) : fetchPc[e] # "none"

\* Worker.run / NextRecordWorker.run has returned
DispatchEnded(d) == dispatchPc[d] = "done"
FetchFailures == {"oserror", "timeout", "out_of_range", "parse_failed"}
FetchEnded(f) == fetchPc[f] \in FetchFailures \cup {"fetched", "cancelled"}

\* state after Z3950SearchApp.__init__: no worker exists, Cancel is disabled
AppConstructed ==
    /\ SessionFresh
    /\ servers = << >>
    /\ max_threads = 1
    /\ workerPc = "begin"
    /\ nextServer = 1
    /\ cancel_requested = FALSE
    /\ processes = {}
    /\ completed_servers = 0
    /\ poolQueue = << >>
    /\ pc = << >>
    /\ proc = << >>
    /\ terminated = << >>
    /\ progressLocal = << >>
    /\ mainPc = "idle"
    /\ mainCtx = "none"
    /\ was_canceled = FALSE
    /\ processes_copy = {}
    /\ worker_ref = FALSE
    /\ progress_bar = 0
    /\ cancel_button = FALSE
    /\ results_window = {}
    /\ mainQueue = << >>
    /\ progress_emitted = << >>
    /\ results_emitted = << >>
    /\ finished_emitted = << >>
    /\ logs = << >>
    /\ observed = << >>
    /\ cancel_clicked = FALSE
    /\ cancel_calls = 0
    /\ mutex = {}

SessionInit == AppConstructed /\ call = NoCall

\* _update_navigation_buttons / _manage_navigation_buttons(index > 0, index < total - 1)
NavUpdate(index, total) ==
    /\ prev_enabled' = (index > 0)
    /\ next_enabled' = (index < total - 1)

\* _search_finished(was_canceled): search buttons on, Cancel off, bar 100 and
\* "Search completed." unless cancelled, navigation refreshed, fetch flag cleared
SearchFinished(canceled) ==
    /\ cancel_button' = FALSE
    /\ progress_bar' = SearchFinishedBar(canceled)
    /\ message' = IF canceled THEN "none" ELSE "search_completed"
    /\ NavUpdate(current_record_index, total_records)
    /\ fetch_in_progress' = FALSE

\* ---- Worker, seen from the session

\* a unit's _emit_result: result_found carrying the hit count (>= 1) and the
\* raw text, which holds a record extract_marc_record can parse or does not
Dispatch_result_found(d) ==
    /\ dispatchPc[d] = "running"
    /\ \E h \in 1..MaxTotal, parses \in BOOLEAN :
          mainQueue' = Append(mainQueue,
                              Signal("result_found",
                                     [number_of_hits |-> h, raw_record |-> parses], d))
    /\ dispatchPc' = [dispatchPc EXCEPT ![d] = "reported"]
    /\ UNCHANGED << dispatchCancel, fetchPc, fetchCancel, fetchStart >>
    /\ UNCHANGED << searchState, navigation, fetch_in_progress, message >>
    /\ UNCHANGED << dispatch_worker, next_worker, signal_src >>
    /\ UNCHANGED << mainPc, mainCtx, was_canceled, progress_bar, cancel_button, results_window >>
    /\ UNCHANGED dispatcherVars

\* the end of Worker.run: finished.emit()
Dispatch_finished(d) ==
    /\ dispatchPc[d] \in {"running", "reported"}
    /\ mainQueue' = Append(mainQueue, Signal("finished", 0, d))
    /\ dispatchPc' = [dispatchPc EXCEPT ![d] = "done"]
    /\ UNCHANGED << dispatchCancel, fetchPc, fetchCancel, fetchStart >>
    /\ UNCHANGED << searchState, navigation, fetch_in_progress, message >>
    /\ UNCHANGED << dispatch_worker, next_worker, signal_src >>
    /\ UNCHANGED << mainPc, mainCtx, was_canceled, progress_bar, cancel_button, results_window >>
    /\ UNCHANGED dispatcherVars

\* ---- NextRecordWorker.run

\* if self._cancel_requested: finished.emit(); return.  Otherwise the command
\* is prepared (the server's keys are those the dispatch already used) and
\* Popen is reached
NextRecordWorker_run_begin(f) ==
    /\ fetchPc[f] = "begin"
    /\ IF fetchCancel[f]
         THEN /\ mainQueue' = Append(mainQueue, Signal("next_finished", 0, f))
              /\ fetchPc' = [fetchPc EXCEPT ![f] = "cancelled"]
         ELSE /\ fetchPc' = [fetchPc EXCEPT ![f] = "communicate"]
              /\ UNCHANGED mainQueue
    /\ UNCHANGED << dispatchPc, dispatchCancel, fetchCancel, fetchStart >>
    /\ UNCHANGED << searchState, navigation, fetch_in_progress, message >>
    /\ UNCHANGED << dispatch_worker, next_worker, signal_src >>
    /\ UNCHANGED << mainPc, mainCtx, was_canceled, progress_bar, cancel_button, results_window >>
    /\ UNCHANGED dispatcherVars

\* faulty variant of NextRecordWorker_run_communicate (the run returns
\* without emitting any signal), for the sensitivity of C37
NextRecordWorker_run_communicate_Silent(f) ==
    /\ fetchPc[f] = "communicate"
    /\ fetchPc' = [fetchPc EXCEPT ![f] = "timeout"]
    /\ UNCHANGED << dispatchPc, dispatchCancel, fetchCancel, fetchStart, mainQueue >>
    /\ UNCHANGED << searchState, navigation, fetch_in_progress, message >>
    /\ UNCHANGED << dispatch_worker, next_worker, signal_src >>
    /\ UNCHANGED << mainPc, mainCtx, was_canceled, progress_bar, cancel_button, results_window >>
    /\ UNCHANGED dispatcherVars

\* Popen raising OSError: error.emit unless self._cancel_requested.
\* process.communicate(timeout): TimeoutExpired: terminate, wait, error.emit,
\* finished.emit, return.  Otherwise, if self._cancel_requested: terminate,
\* wait, finished.emit, return.  Otherwise "Present request out of range":
\* error.emit; a record parsed from the text: record_fetched.emit; no record:
\* error.emit.  Then, on every one of these paths, finally: finished.emit()
NextRecordWorker_run_communicate(f) ==
    /\ fetchPc[f] = "communicate"
    /\ \E outcome \in FetchFailures \cup {"fetched"} :
          IF outcome = "oserror"
            THEN IF fetchCancel[f]
                   THEN /\ mainQueue' = Append(mainQueue, Signal("next_finished", 0, f))
                        /\ fetchPc' = [fetchPc EXCEPT ![f] = "cancelled"]
                   ELSE /\ mainQueue' = mainQueue \o << Signal("error", "oserror", f),
                                                        Signal("next_finished", 0, f) >>
                        /\ fetchPc' = [fetchPc EXCEPT ![f] = "oserror"]
            ELSE IF outcome = "timeout"
            THEN /\ mainQueue' = mainQueue \o << Signal("error", "timeout", f),
                                                 Signal("next_finished", 0, f),
                                                 Signal("next_finished", 0, f) >>
                 /\ fetchPc' = [fetchPc EXCEPT ![f] = "timeout"]
            ELSE IF fetchCancel[f]
            THEN /\ mainQueue' = mainQueue \o << Signal("next_finished", 0, f),
                                                 Signal("next_finished", 0, f) >>
                 /\ fetchPc' = [fetchPc EXCEPT ![f] = "cancelled"]
            ELSE IF outcome = "fetched"
            THEN /\ mainQueue' = mainQueue \o << Signal("record_fetched", fetchStart[f], f),
                                                 Signal("next_finished", 0, f) >>
                 /\ fetchPc' = [fetchPc EXCEPT ![f] = "fetched"]
            ELSE /\ mainQueue' = mainQueue \o << Signal("error", outcome, f),
                                                 Signal("next_finished", 0, f) >>
                 /\ fetchPc' = [fetchPc EXCEPT ![f] = outcome]
    /\ UNCHANGED << dispatchPc, dispatchCancel, fetchCancel, fetchStart >>
    /\ UNCHANGED << searchState, navigation, fetch_in_progress, message >>
    /\ UNCHANGED << dispatch_worker, next_worker, signal_src >>
    /\ UNCHANGED << mainPc, mainCtx, was_canceled, progress_bar, cancel_button, results_window >>
    /\ UNCHANGED dispatcherVars

\* ---- the operator's clicks

\* faulty variant of Session_start_search (the total hit count of the
\* previous selection is kept), for the sensitivity of C23
Session_start_search_KeepTotal ==
    /\ mainPc = "idle"
    /\ ~cancel_button
    /\ \E d \in Dispatches : dispatchPc[d] = "none"
    /\ current_marc_records' = << >>
    /\ current_record_index' = 0
    /\ results_window' = {}
    /\ progress_bar' = 0
    /\ prev_enabled' = FALSE
    /\ next_enabled' = FALSE
    /\ message' = "none"
    /\ dispatch_worker' = NextDispatch
    /\ dispatchPc' = [dispatchPc EXCEPT ![NextDispatch] = "running"]
    /\ cancel_button' = TRUE
    /\ UNCHANGED << total_records, dispatchCancel, fetchPc, fetchCancel, fetchStart >>
    /\ UNCHANGED << fetch_in_progress, next_worker, signal_src, mainQueue >>
    /\ UNCHANGED << mainPc, mainCtx, was_canceled >>
    /\ UNCHANGED dispatcherVars

\* a search button: _start_search, its validations passed.  The state is
\* cleared, cleanup_worker_thread finds no worker (StartSearchFindsNoWorker),
\* the new Worker is built and started, the search buttons go off and Cancel on
Session_start_search ==
    /\ mainPc = "idle"
    /\ ~cancel_button
    /\ \E d \in Dispatches : dispatchPc[d] = "none"
    /\ current_marc_records' = << >>
    /\ total_records' = 0
    /\ current_record_index' = 0
    /\ results_window' = {}
    /\ progress_bar' = 0
    /\ prev_enabled' = FALSE
    /\ next_enabled' = FALSE
    /\ message' = "none"
    /\ dispatch_worker' = NextDispatch
    /\ dispatchPc' = [dispatchPc EXCEPT ![NextDispatch] = "running"]
    /\ cancel_button' = TRUE
    /\ UNCHANGED << dispatchCancel, fetchPc, fetchCancel, fetchStart >>
    /\ UNCHANGED << fetch_in_progress, next_worker, signal_src, mainQueue >>
    /\ UNCHANGED << mainPc, mainCtx, was_canceled >>
    /\ UNCHANGED dispatcherVars

\* the rest of _cancel_search after cleanup_worker_thread
CancelSearchTail ==
    /\ progress_bar' = 0
    /\ cancel_button' = FALSE
    /\ message' = "search_cancelled"
    /\ fetch_in_progress' = FALSE
    /\ NavUpdate(current_record_index, total_records)

\* the Cancel button: _cancel_search.  cleanup_worker_thread: a worker whose
\* thread runs (it runs until a `finished` delivery has quit it) is cancelled
\* and waited for
Session_cancel_search ==
    /\ mainPc = "idle"
    /\ cancel_button
    /\ IF dispatch_worker # 0
         THEN /\ dispatchCancel' = [dispatchCancel EXCEPT ![dispatch_worker] = TRUE]
              /\ mainPc' = "thread_wait"
              /\ mainCtx' = "cancel_search"
              /\ UNCHANGED << dispatch_worker, progress_bar, cancel_button, message >>
              /\ UNCHANGED << fetch_in_progress, navigation >>
         ELSE /\ CancelSearchTail
              /\ UNCHANGED << dispatchCancel, mainPc, mainCtx, dispatch_worker >>
    /\ UNCHANGED << dispatchPc, fetchPc, fetchCancel, fetchStart >>
    /\ UNCHANGED << searchState, next_worker, signal_src, mainQueue >>
    /\ UNCHANGED << was_canceled, results_window >>
    /\ UNCHANGED dispatcherVars

\* faulty variant of Session_on_result_clicked (the index is not reset), for
\* the sensitivity of C24
Session_on_result_clicked_KeepIndex(item) ==
    /\ mainPc = "idle"
    /\ item \in results_window
    /\ current_marc_records' = IF item.raw_record THEN << 1 >> ELSE << >>
    /\ total_records' = item.number_of_hits
    /\ NavUpdate(current_record_index, item.number_of_hits)
    /\ message' = "none"
    /\ UNCHANGED << current_record_index, sessionWorkers, fetch_in_progress >>
    /\ UNCHANGED << dispatch_worker, next_worker, signal_src, mainQueue >>
    /\ UNCHANGED << mainPc, mainCtx, was_canceled, progress_bar, cancel_button, results_window >>
    /\ UNCHANGED dispatcherVars

\* a click on an item of the results window: _on_result_clicked
Session_on_result_clicked(item) ==
    /\ mainPc = "idle"
    /\ item \in results_window
    /\ current_marc_records' = IF item.raw_record THEN << 1 >> ELSE << >>
    /\ total_records' = item.number_of_hits
    /\ current_record_index' = 0
    /\ NavUpdate(0, item.number_of_hits)
    /\ message' = "none"
    /\ UNCHANGED << sessionWorkers, fetch_in_progress, dispatch_worker, next_worker >>
    /\ UNCHANGED << signal_src, mainQueue >>
    /\ UNCHANGED << mainPc, mainCtx, was_canceled, progress_bar, cancel_button, results_window >>
    /\ UNCHANGED dispatcherVars

\* faulty variant of Session_show_next_record (only the fetch_in_progress
\* flag guards the request, the running thread is not looked at), for the
\* sensitivity of C17
Session_show_next_record_FlagOnly ==
    /\ mainPc = "idle"
    /\ next_enabled
    /\ IF fetch_in_progress
         THEN /\ message' = "fetch_in_progress"
              /\ UNCHANGED << searchState, navigation, fetch_in_progress, next_worker >>
              /\ UNCHANGED << fetchPc, fetchStart >>
         ELSE IF current_record_index + 1 < Len(current_marc_records)
         THEN /\ current_record_index' = current_record_index + 1
              /\ NavUpdate(current_record_index + 1, total_records)
              /\ message' = "none"
              /\ UNCHANGED << current_marc_records, total_records, fetch_in_progress >>
              /\ UNCHANGED << next_worker, fetchPc, fetchStart >>
         ELSE IF current_record_index + 1 < total_records
         THEN /\ \E f \in Fetches : fetchPc[f] = "none"
              /\ fetch_in_progress' = TRUE
              /\ prev_enabled' = FALSE
              /\ next_enabled' = FALSE
              /\ next_worker' = NextFetch
              /\ fetchPc' = [fetchPc EXCEPT ![NextFetch] = "begin"]
              /\ fetchStart' = [fetchStart EXCEPT ![NextFetch] = current_record_index + 2]
              /\ message' = "none"
              /\ UNCHANGED searchState
         ELSE /\ message' = "no_more_records"
              /\ prev_enabled' = (current_record_index > 0)
              /\ next_enabled' = FALSE
              /\ UNCHANGED << searchState, fetch_in_progress, next_worker >>
              /\ UNCHANGED << fetchPc, fetchStart >>
    /\ UNCHANGED << dispatchPc, dispatchCancel, fetchCancel >>
    /\ UNCHANGED << dispatch_worker, signal_src, mainQueue >>
    /\ UNCHANGED << mainPc, mainCtx, was_canceled, progress_bar, cancel_button, results_window >>
    /\ UNCHANGED dispatcherVars

\* faulty variant of Session_show_next_record (the flag set at the start of
\* the handler is not cleared after a cached record was shown), for the
\* sensitivity of C31
Session_show_next_record_FlagLeftSet ==
    /\ mainPc = "idle"
    /\ next_enabled
    /\ IF fetch_in_progress \/ next_worker # 0
         THEN /\ message' = "fetch_in_progress"
              /\ UNCHANGED << searchState, navigation, fetch_in_progress, next_worker >>
              /\ UNCHANGED << fetchPc, fetchStart >>
         ELSE IF current_record_index + 1 < Len(current_marc_records)
         THEN /\ current_record_index' = current_record_index + 1
              /\ NavUpdate(current_record_index + 1, total_records)
              /\ message' = "none"
              /\ fetch_in_progress' = TRUE
              /\ UNCHANGED << current_marc_records, total_records >>
              /\ UNCHANGED << next_worker, fetchPc, fetchStart >>
         ELSE IF current_record_index + 1 < total_records
         THEN /\ \E f \in Fetches : fetchPc[f] = "none"
              /\ fetch_in_progress' = TRUE
              /\ prev_enabled' = FALSE
              /\ next_enabled' = FALSE
              /\ next_worker' = NextFetch
              /\ fetchPc' = [fetchPc EXCEPT ![NextFetch] = "begin"]
              /\ fetchStart' = [fetchStart EXCEPT ![NextFetch] = current_record_index + 2]
              /\ message' = "none"
              /\ UNCHANGED searchState
         ELSE /\ message' = "no_more_records"
              /\ prev_enabled' = (current_record_index > 0)
              /\ next_enabled' = FALSE
              /\ UNCHANGED << searchState, fetch_in_progress, next_worker >>
              /\ UNCHANGED << fetchPc, fetchStart >>
    /\ UNCHANGED << dispatchPc, dispatchCancel, fetchCancel >>
    /\ UNCHANGED << dispatch_worker, signal_src, mainQueue >>
    /\ UNCHANGED << mainPc, mainCtx, was_canceled, progress_bar, cancel_button, results_window >>
    /\ UNCHANGED dispatcherVars

\* the Next button: _show_next_record.  Rejected while fetch_in_progress, or
\* while the manager holds a worker whose thread runs (it runs until a
\* `finished` delivery has quit it and dropped the worker).  Otherwise: the
\* next cached record; or a NextRecordWorker for start = index + 2 (its
\* cleanup_worker_thread finds no worker); or "No more records to display."
Session_show_next_record ==
    /\ mainPc = "idle"
    /\ next_enabled
    /\ IF fetch_in_progress \/ next_worker # 0
         THEN /\ message' = "fetch_in_progress"
              /\ UNCHANGED << searchState, navigation, fetch_in_progress, next_worker >>
              /\ UNCHANGED << fetchPc, fetchStart >>
         ELSE IF current_record_index + 1 < Len(current_marc_records)
         THEN /\ current_record_index' = current_record_index + 1
              /\ NavUpdate(current_record_index + 1, total_records)
              /\ message' = "none"
              /\ UNCHANGED << current_marc_records, total_records, fetch_in_progress >>
              /\ UNCHANGED << next_worker, fetchPc, fetchStart >>
         ELSE IF current_record_index + 1 < total_records
         THEN /\ \E f \in Fetches : fetchPc[f] = "none"
              /\ fetch_in_progress' = TRUE
              /\ prev_enabled' = FALSE
              /\ next_enabled' = FALSE
              /\ next_worker' = NextFetch
              /\ fetchPc' = [fetchPc EXCEPT ![NextFetch] = "begin"]
              /\ fetchStart' = [fetchStart EXCEPT ![NextFetch] = current_record_index + 2]
              /\ message' = "none"
              /\ UNCHANGED searchState
         ELSE /\ message' = "no_more_records"
              /\ prev_enabled' = (current_record_index > 0)
              /\ next_enabled' = FALSE
              /\ UNCHANGED << searchState, fetch_in_progress, next_worker >>
              /\ UNCHANGED << fetchPc, fetchStart >>
    /\ UNCHANGED << dispatchPc, dispatchCancel, fetchCancel >>
    /\ UNCHANGED << dispatch_worker, signal_src, mainQueue >>
    /\ UNCHANGED << mainPc, mainCtx, was_canceled, progress_bar, cancel_button, results_window >>
    /\ UNCHANGED dispatcherVars

\* faulty variant of Session_show_prev_record (the record stepped back from is
\* dropped from the cache), for the sensitivity of C21
Session_show_prev_record_DropRecord ==
    /\ mainPc = "idle"
    /\ prev_enabled
    /\ IF current_record_index > 0
         THEN /\ current_record_index' = current_record_index - 1
              /\ current_marc_records' = SubSeq(current_marc_records, 1, current_record_index)
              /\ NavUpdate(current_record_index - 1, total_records)
              /\ message' = "none"
         ELSE /\ message' = "first_record"
              /\ UNCHANGED << current_record_index, current_marc_records, navigation >>
    /\ UNCHANGED << total_records, fetch_in_progress >>
    /\ UNCHANGED << sessionWorkers, dispatch_worker, next_worker, signal_src, mainQueue >>
    /\ UNCHANGED << mainPc, mainCtx, was_canceled, progress_bar, cancel_button, results_window >>
    /\ UNCHANGED dispatcherVars

\* the Previous button: _show_prev_record
Session_show_prev_record ==
    /\ mainPc = "idle"
    /\ prev_enabled
    /\ IF current_record_index > 0
         THEN /\ current_record_index' = current_record_index - 1
              /\ NavUpdate(current_record_index - 1, total_records)
              /\ message' = "none"
         ELSE /\ message' = "first_record"
              /\ UNCHANGED << current_record_index, navigation >>
    /\ UNCHANGED << current_marc_records, total_records, fetch_in_progress >>
    /\ UNCHANGED << sessionWorkers, dispatch_worker, next_worker, signal_src, mainQueue >>
    /\ UNCHANGED << mainPc, mainCtx, was_canceled, progress_bar, cancel_button, results_window >>
    /\ UNCHANGED dispatcherVars

\* ---- slots of the workers' signals

\* slot of result_found: _display_result
Session_display_result ==
    /\ mainPc = "idle"
    /\ mainQueue # << >>
    /\ Head(mainQueue).sig = "result_found"
    /\ results_window' = results_window \cup { Head(mainQueue).val }
    /\ mainQueue' = Tail(mainQueue)
    /\ message' = "none"
    /\ UNCHANGED << sessionWorkers, searchState, navigation, fetch_in_progress >>
    /\ UNCHANGED << dispatch_worker, next_worker, signal_src >>
    /\ UNCHANGED << mainPc, mainCtx, was_canceled, progress_bar, cancel_button >>
    /\ UNCHANGED dispatcherVars

\* slot of Worker.finished: _on_worker_finished.  was_canceled is read from
\* the worker the manager holds now (True when it holds none); then
\* cleanup_worker_thread: the held worker is cancelled and waited for if its
\* thread runs, which it does unless this very signal has quit it (then the
\* flag is set or not, and nothing reads it any more: left as it is); then
\* _search_finished(was_canceled)
Session_on_worker_finished ==
    /\ mainPc = "idle"
    /\ mainQueue # << >>
    /\ Head(mainQueue).sig = "finished"
    /\ mainQueue' = Tail(mainQueue)
    /\ LET canceled == IF dispatch_worker # 0 THEN dispatchCancel[dispatch_worker]
                       ELSE TRUE IN
       IF dispatch_worker # 0 /\ dispatch_worker # Head(mainQueue).src
         THEN /\ dispatchCancel' = [dispatchCancel EXCEPT ![dispatch_worker] = TRUE]
              /\ was_canceled' = canceled
              /\ signal_src' = Head(mainQueue).src
              /\ mainPc' = "thread_wait"
              /\ mainCtx' = "on_worker_finished"
              /\ UNCHANGED << dispatch_worker, progress_bar, cancel_button, message >>
              /\ UNCHANGED << fetch_in_progress, navigation >>
         ELSE /\ dispatch_worker' = 0
              /\ SearchFinished(canceled)
              /\ UNCHANGED << dispatchCancel, was_canceled, signal_src, mainPc, mainCtx >>
    /\ UNCHANGED << dispatchPc, fetchPc, fetchCancel, fetchStart >>
    /\ UNCHANGED << searchState, next_worker, results_window >>
    /\ UNCHANGED dispatcherVars

\* slot of record_fetched: _handle_next_record_fetched
Session_handle_next_record_fetched ==
    /\ mainPc = "idle"
    /\ mainQueue # << >>
    /\ Head(mainQueue).sig = "record_fetched"
    /\ mainQueue' = Tail(mainQueue)
    /\ current_marc_records' = Append(current_marc_records, Head(mainQueue).val)
    /\ current_record_index' = current_record_index + 1
    /\ prev_enabled' = TRUE
    /\ next_enabled' = (current_record_index + 1 < total_records - 1)
    /\ fetch_in_progress' = FALSE
    /\ message' = "none"
    /\ UNCHANGED << total_records, sessionWorkers, dispatch_worker, next_worker, signal_src >>
    /\ UNCHANGED << mainPc, mainCtx, was_canceled, progress_bar, cancel_button, results_window >>
    /\ UNCHANGED dispatcherVars

\* faulty variant of Session_handle_next_record_error (the index is advanced
\* as on success), for the sensitivity of C19
Session_handle_next_record_error_Advance ==
    /\ mainPc = "idle"
    /\ mainQueue # << >>
    /\ Head(mainQueue).sig = "error"
    /\ mainQueue' = Tail(mainQueue)
    /\ message' = "fetch_error"
    /\ current_record_index' = current_record_index + 1
    /\ prev_enabled' = TRUE
    /\ next_enabled' = TRUE
    /\ fetch_in_progress' = FALSE
    /\ UNCHANGED << current_marc_records, total_records >>
    /\ UNCHANGED << sessionWorkers, dispatch_worker, next_worker, signal_src >>
    /\ UNCHANGED << mainPc, mainCtx, was_canceled, progress_bar, cancel_button, results_window >>
    /\ UNCHANGED dispatcherVars

\* slot of NextRecordWorker.error: _handle_next_record_error (a warning box,
\* Next enabled for a retry)
Session_handle_next_record_error ==
    /\ mainPc = "idle"
    /\ mainQueue # << >>
    /\ Head(mainQueue).sig = "error"
    /\ mainQueue' = Tail(mainQueue)
    /\ message' = "fetch_error"
    /\ prev_enabled' = (current_record_index > 0)
    /\ next_enabled' = TRUE
    /\ fetch_in_progress' = FALSE
    /\ UNCHANGED << searchState, sessionWorkers, dispatch_worker, next_worker, signal_src >>
    /\ UNCHANGED << mainPc, mainCtx, was_canceled, progress_bar, cancel_button, results_window >>
    /\ UNCHANGED dispatcherVars

\* the rest of _on_next_record_worker_finished after cleanup_worker_thread
NextFinishedTail ==
    /\ next_worker' = 0
    /\ NavUpdate(current_record_index, total_records)
    /\ fetch_in_progress' = FALSE
    /\ message' = "none"

\* slot of NextRecordWorker.finished: _on_next_record_worker_finished.
\* cleanup_worker_thread: the held worker is cancelled and waited for if its
\* thread runs, which it does unless this very signal has quit it (then the
\* flag is set or not, and nothing reads it any more: left as it is)
Session_on_next_record_worker_finished ==
    /\ mainPc = "idle"
    /\ mainQueue # << >>
    /\ Head(mainQueue).sig = "next_finished"
    /\ mainQueue' = Tail(mainQueue)
    /\ IF next_worker # 0 /\ next_worker # Head(mainQueue).src
         THEN /\ fetchCancel' = [fetchCancel EXCEPT ![next_worker] = TRUE]
              /\ signal_src' = Head(mainQueue).src
              /\ mainPc' = "thread_wait"
              /\ mainCtx' = "on_next_record_worker_finished"
              /\ UNCHANGED << next_worker, navigation, fetch_in_progress, message >>
         ELSE /\ NextFinishedTail
              /\ UNCHANGED << fetchCancel, signal_src, mainPc, mainCtx >>
    /\ UNCHANGED << dispatchPc, dispatchCancel, fetchPc, fetchStart >>
    /\ UNCHANGED << searchState, dispatch_worker >>
    /\ UNCHANGED << was_canceled, progress_bar, cancel_button, results_window >>
    /\ UNCHANGED dispatcherVars

\* cleanup_worker_thread: thread.wait() returns once the run of the worker
\* that was cancelled has returned; the manager drops the worker and the
\* slot that called it goes on (_cancel_search, _on_worker_finished or
\* _on_next_record_worker_finished)
Session_thread_wait ==
    /\ mainPc = "thread_wait"
    /\ IF mainCtx = "on_next_record_worker_finished"
         THEN /\ FetchEnded(next_worker)
              /\ NextFinishedTail
              /\ UNCHANGED << dispatch_worker, progress_bar, cancel_button >>
         ELSE /\ DispatchEnded(dispatch_worker)
              /\ dispatch_worker' = 0
              /\ IF mainCtx = "cancel_search"
                   THEN CancelSearchTail
                   ELSE SearchFinished(was_canceled)
              /\ UNCHANGED next_worker
    /\ was_canceled' = FALSE
    /\ signal_src' = 0
    /\ mainPc' = "idle"
    /\ mainCtx' = "none"
    /\ UNCHANGED << sessionWorkers, searchState, mainQueue, results_window >>
    /\ UNCHANGED dispatcherVars

SessionNext ==
    \/ \E d \in Dispatches : Dispatch_result_found(d)
    \/ \E d \in Dispatches : Dispatch_finished(d)
    \/ \E f \in Fetches : NextRecordWorker_run_begin(f)
    \/ \E f \in Fetches : NextRecordWorker_run_communicate(f)
    \/ Session_start_search
    \/ Session_cancel_search
    \/ \E item \in results_window : Session_on_result_clicked(item)
    \/ Session_show_next_record
    \/ Session_show_prev_record
    \/ Session_display_result
    \/ Session_on_worker_finished
    \/ Session_handle_next_record_fetched
    \/ Session_handle_next_record_error
    \/ Session_on_next_record_worker_finished
    \/ Session_thread_wait

SessionSpec == SessionInit /\ [][SessionNext]_vars

\* The same session in which at most MaxNavSearches searches are started
NavigationNext ==
    \/ \E d \in Dispatches : Dispatch_result_found(d)
    \/ \E d \in Dispatches : Dispatch_finished(d)
    \/ \E f \in Fetches : NextRecordWorker_run_begin(f)
    \/ \E f \in Fetches : NextRecordWorker_run_communicate(f)
    \/ (Session_start_search /\ dispatchPc[MaxNavSearches] = "none")
    \/ Session_cancel_search
    \/ \E item \in results_window : Session_on_result_clicked(item)
    \/ Session_show_next_record
    \/ Session_show_prev_record
    \/ Session_display_result
    \/ Session_on_worker_finished
    \/ Session_handle_next_record_fetched
    \/ Session_handle_next_record_error
    \/ Session_on_next_record_worker_finished
    \/ Session_thread_wait

NavigationSpec == SessionInit /\ [][NavigationNext]_vars

\* The same session in which at most MaxSearchFetches fetches are started
SearchNext ==
    \/ \E d \in Dispatches : Dispatch_result_found(d)
    \/ \E d \in Dispatches : Dispatch_finished(d)
    \/ \E f \in Fetches : NextRecordWorker_run_begin(f)
    \/ \E f \in Fetches : NextRecordWorker_run_communicate(f)
    \/ Session_start_search
    \/ Session_cancel_search
    \/ \E item \in results_window : Session_on_result_clicked(item)
    \/ (Session_show_next_record /\ fetchPc[MaxSearchFetches] = "none")
    \/ Session_show_prev_record
    \/ Session_display_result
    \/ Session_on_worker_finished
    \/ Session_handle_next_record_fetched
    \/ Session_handle_next_record_error
    \/ Session_on_next_record_worker_finished
    \/ Session_thread_wait

SearchSpec == SessionInit /\ [][SearchNext]_vars

\* The session in which at most MaxNavSearches searches and MaxSearchFetches
\* fetches are started, and in which every thread goes on running: the run
\* of a Worker returns (its subprocesses exit or time out), a
\* NextRecordWorker's thread takes its steps (communicate() returns or times
\* out), and the event loop of the main thread delivers the queued signals
\* and returns from thread.wait().  The operator is not obliged to click.
FetchLiveNext ==
    \/ \E d \in Dispatches : Dispatch_result_found(d)
    \/ \E d \in Dispatches : Dispatch_finished(d)
    \/ \E f \in Fetches : NextRecordWorker_run_begin(f)
    \/ \E f \in Fetches : NextRecordWorker_run_communicate(f)
    \/ (Session_start_search /\ dispatchPc[MaxNavSearches] = "none")
    \/ Session_cancel_search
    \/ \E item \in results_window : Session_on_result_clicked(item)
    \/ (Session_show_next_record /\ fetchPc[MaxSearchFetches] = "none")
    \/ Session_show_prev_record
    \/ Session_display_result
    \/ Session_on_worker_finished
    \/ Session_handle_next_record_fetched
    \/ Session_handle_next_record_error
    \/ Session_on_next_record_worker_finished
    \/ Session_thread_wait

EventLoop ==
    \/ Session_display_result
    \/ Session_on_worker_finished
    \/ Session_handle_next_record_fetched
    \/ Session_handle_next_record_error
    \/ Session_on_next_record_worker_finished
    \/ Session_thread_wait

FetchLiveSpec ==
    /\ SessionInit
    /\ [][FetchLiveNext]_vars
    /\ \A d \in Dispatches : WF_vars(Dispatch_finished(d))
    /\ \A f \in Fetches :
          WF_vars(NextRecordWorker_run_begin(f) \/ NextRecordWorker_run_communicate(f))
    /\ WF_vars(EventLoop)

\* search_state.current_query.  The searches of a session are numbered in
\* the order they are started and the query of search d is called d:
\* _prepare_isbn_search / _prepare_title_author_search record it as the last
\* thing before _start_search clears the state and builds the Worker with it
current_query == Cardinality({ d \in Dispatches : dispatchPc[d] # "none" })

\* what the model of _start_search and _show_next_record relies on: where the
\* search buttons are enabled the dispatch manager holds no worker
StartSearchFindsNoWorker == ~cancel_button => dispatch_worker = 0

\* ---- what the session's steps are, for the properties

\* the step on which the slot handling signal `sig` of worker `src` is entered
Delivered(sig, src) ==
    /\ mainPc = "idle"
    /\ mainQueue # << >>
    /\ Head(mainQueue).sig = sig
    /\ Head(mainQueue).src = src
    /\ mainQueue' = Tail(mainQueue)

\* the step on which _on_worker_finished, handling the `finished` signal of
\* dispatch d, returns (at once, or after cleanup_worker_thread's wait)
FinishedHandled(d) ==
    \/ Delivered("finished", d) /\ mainPc' = "idle"
    \/ /\ mainPc = "thread_wait"
       /\ mainCtx = "on_worker_finished"
       /\ signal_src = d
       /\ mainPc' = "idle"

\* the step on which _show_next_record builds and starts NextRecordWorker f
FetchStarted(f) == fetchPc[f] = "none" /\ fetchPc'[f] = "begin"

\* NextRecordWorkers whose run has not returned
FetchesInFlight == { f \in Fetches : fetchPc[f] \in {"begin", "communicate"} }

\* a Worker whose run has not returned and that was not cancelled
DispatchActive ==
    \E d \in Dispatches : dispatchPc[d] \in {"running", "reported"} /\ ~dispatchCancel[d]

\* ------------------------------------------------- the utilities (utils.py)

\* The functions of utils.py, and the evaluation of a unit's output in
\* ServerQueryRunnable.run, followed one call at a time: `call` holds the
\* function, its argument and, once it has returned, its result.  A str is
\* the sequence of its characters, each a one-character string; "sup2" stands
\* for the character U+00B2, a digit for str.isdigit() that int() refuses.
\* A text is held as the list of its lines (raw_data.splitlines()).

\* the application's variables, which the utilities leave alone
applicationVars == << servers, max_threads, workerPc, nextServer, cancel_requested,
                      processes, completed_servers, poolQueue, pc, proc, terminated,
                      progressLocal, mainPc, mainCtx, was_canceled, processes_copy,
                      worker_ref, progress_bar, cancel_button, results_window, mainQueue,
                      progress_emitted, results_emitted, finished_emitted, logs, observed,
                      cancel_clicked, cancel_calls, current_marc_records,
                      current_record_index, total_records, fetch_in_progress, prev_enabled,
                      next_enabled, message, dispatch_worker, next_worker, signal_src,
                      dispatchPc, dispatchCancel, fetchPc, fetchCancel, fetchStart,
                      mutex >>

\* every str of at most n characters over an alphabet
Strings(alphabet, n) == UNION { [1..k -> alphabet] : k \in 0..n }

\* ---- str methods

\* s[from:to] and s[from:], positions counted from 0
Slice(s, from, to) == SubSeq(s, from + 1, IF to < Len(s) THEN to ELSE Len(s))
SliceFrom(s, from) == SubSeq(s, from + 1, Len(s))

\* s.find(sub, start): the lowest position >= start at which sub occurs, or -1
Find(s, sub, start) ==
    LET At(i) == Slice(s, i, i + Len(sub)) = sub
        hits == { i \in start..(Len(s) - Len(sub)) : At(i) }
    IN  IF hits = {} THEN -1 ELSE CHOOSE i \in hits : \A j \in hits : i <= j

\* s.strip(), for the one whitespace character of the alphabet
RECURSIVE lstrip(_)
lstrip(s) == IF s # << >> /\ Head(s) = " " THEN lstrip(Tail(s)) ELSE s

RECURSIVE rstrip(_)
rstrip(s) == IF s # << >> /\ s[Len(s)] = " " THEN rstrip(SubSeq(s, 1, Len(s) - 1)) ELSE s

strip(s) == rstrip(lstrip(s))

\* s.split("$")
RECURSIVE split(_)
split(s) ==
    LET i == Find(s, << "$" >>, 0)
    IN  IF i = -1 THEN << s >> ELSE << Slice(s, 0, i) >> \o split(SliceFrom(s, i + 1))

\* characters 0-9, and the characters str.isdigit() accepts
DecimalDigits == {"0", "1", "2", "3", "4", "5", "6", "7", "8", "9"}
isdigit(s) == s # << >> /\ \A i \in DOMAIN s : s[i] \in DecimalDigits \cup {"sup2"}

\* int(s) raises ValueError / the value of int(s), for s.isdigit()
IntRaises(s) == s = << >> \/ \E i \in DOMAIN s : s[i] \notin DecimalDigits
DigitValue(c) == CASE c = "0" -> 0 [] c = "1" -> 1 [] c = "2" -> 2 [] c = "3" -> 3
                   [] c = "4" -> 4 [] c = "5" -> 5 [] c = "6" -> 6 [] c = "7" -> 7
                   [] c = "8" -> 8 [] c = "9" -> 9
RECURSIVE int(_)
int(s) == IF s = << >> THEN 0 ELSE 10 * int(SubSeq(s, 1, Len(s) - 1)) + DigitValue(s[Len(s)])

\* ---- _remove_malformed_dollars

\* faulty variant of remove_malformed_dollars (one pass: only the first "$$"
\* is repaired), for the sensitivity of C28
remove_malformed_dollars_OnePass(line_content) ==
    LET start_pos == Find(line_content, << "$", "$" >>, 0)
        end_pos == Find(line_content, << "$" >>, start_pos + 2)
    IN  IF start_pos = -1 THEN line_content
        ELSE IF end_pos = -1 THEN Slice(line_content, 0, start_pos)
        ELSE Slice(line_content, 0, start_pos) \o SliceFrom(line_content, end_pos)

\* while "$$" in line_content: cut from the "$$" up to the next "$", or to the
\* end when there is none
RECURSIVE remove_malformed_dollars(_)
remove_malformed_dollars(line_content) ==
    LET start_pos == Find(line_content, << "$", "$" >>, 0)
        end_pos == Find(line_content, << "$" >>, start_pos + 2)
    IN  IF start_pos = -1 THEN line_content
        ELSE IF end_pos = -1 THEN remove_malformed_dollars(Slice(line_content, 0, start_pos))
        ELSE remove_malformed_dollars(Slice(line_content, 0, start_pos)
                                         \o SliceFrom(line_content, end_pos))

\* faulty variant of loop_body (the search for the next "$" starts at the
\* second "$" of the "$$", which is kept), for the sensitivity of C33
loop_body_KeepDollar(line_content) ==
    LET start_pos == Find(line_content, << "$", "$" >>, 0)
        end_pos == Find(line_content, << "$" >>, start_pos + 1)
    IN  Slice(line_content, 0, start_pos) \o SliceFrom(line_content, end_pos)

\* the body of `while "$$" in line_content`: one iteration
loop_body(line_content) ==
    LET start_pos == Find(line_content, << "$", "$" >>, 0)
        end_pos == Find(line_content, << "$" >>, start_pos + 2)
    IN  IF end_pos = -1 THEN Slice(line_content, 0, start_pos)
        ELSE Slice(line_content, 0, start_pos) \o SliceFrom(line_content, end_pos)

\* ---- clean_yaz_output

\* len(line) >= 4 and line[:3].isdigit() and line[3] == " "
is_valid_marc_line(line) ==
    Len(line) >= 4 /\ isdigit(Slice(line, 0, 3)) /\ line[4] = " "

\* the comprehension of clean_yaz_output raises ValueError at int(line[:3])
CleanRaises(lines) ==
    \E i \in DOMAIN lines : is_valid_marc_line(lines[i]) /\ IntRaises(Slice(lines[i], 0, 3))

\* ... and min_tag <= int(line[:3]) <= max_tag, with the default 10 and 899
CleanKeeps(line) ==
    is_valid_marc_line(line) /\ 10 <= int(Slice(line, 0, 3)) /\ int(Slice(line, 0, 3)) <= 899

\* clean_yaz_output(raw_data): the lines kept, or the ValueError
clean_yaz_output(raw_data) ==
    IF CleanRaises(raw_data)
      THEN [raised |-> TRUE, lines |-> << >>]
      ELSE [raised |-> FALSE, lines |-> SelectSeq(raw_data, CleanKeeps)]

\* ---- extract_marc_record

\* _extract_and_validate_tag returns the tag (not None): int(tag) does not
\* raise and 10 <= tag_int < 900
extract_and_validate_tag(line) ==
    LET tag == Slice(line, 0, 3)
    IN  ~IntRaises(tag) /\ 10 <= int(tag) /\ int(tag) < 900

\* faulty variant of parse_indicators (always the default indicators), for
\* the sensitivity of C26
parse_indicators_Default(indicators_str) == << " ", " " >>

\* _parse_indicators: both characters, or two blanks
parse_indicators(indicators_str) ==
    IF Len(indicators_str) = 2 THEN indicators_str ELSE << " ", " " >>

\* valid_codes of _parse_subfields, as far as the alphabet of the lines goes
valid_codes == {"a"} \cup DecimalDigits

\* the loop of _parse_subfields over the parts after the first "$"
RECURSIVE parse_parts(_)
parse_parts(subfields_parts) ==
    IF subfields_parts = << >> THEN << >>
    ELSE LET part == strip(Head(subfields_parts))
             code == part[1]
             value == strip(SliceFrom(part, 1))
             rest == parse_parts(Tail(subfields_parts))
         IN  IF Len(part) < 2 THEN rest
             ELSE IF code \notin valid_codes THEN rest
             ELSE IF value = << >> THEN rest
             ELSE << [code |-> code, value |-> value] >> \o rest

\* _parse_subfields: line_content.split("$")[1:], then the loop
parse_subfields(line_content) == parse_parts(Tail(split(line_content)))

\* faulty variant of process_line (the field is added whether or not it has
\* subfields), for the sensitivity of C30
process_line_AddAlways(line) ==
    IF ~is_valid_marc_line(line) THEN << >>
    ELSE IF ~extract_and_validate_tag(line) THEN << >>
    ELSE LET line_content == remove_malformed_dollars(strip(SliceFrom(line, 7)))
         IN  << [tag |-> Slice(line, 0, 3),
                 indicators |-> parse_indicators(Slice(line, 4, 6)),
                 subfields |-> parse_subfields(line_content)] >>

\* _process_line: the fields the line adds to the record (none or one)
process_line(line) ==
    IF ~is_valid_marc_line(line) THEN << >>
    ELSE IF ~extract_and_validate_tag(line) THEN << >>
    ELSE LET line_content == remove_malformed_dollars(strip(SliceFrom(line, 7)))
             subfields == parse_subfields(line_content)
         IN  IF subfields # << >>
               THEN << [tag |-> Slice(line, 0, 3),
                        indicators |-> parse_indicators(Slice(line, 4, 6)),
                        subfields |-> subfields] >>
               ELSE << >>

\* record.fields after the loop of extract_marc_record over the lines
RECURSIVE record_fields(_)
record_fields(lines) ==
    IF lines = << >> THEN << >> ELSE process_line(Head(lines)) \o record_fields(Tail(lines))

\* extract_marc_record: None when the record has no field, else the record
extract_marc_record(raw_data) ==
    LET fields == record_fields(raw_data)
    IN  IF Len(fields) = 0 THEN [record |-> FALSE, fields |-> << >>]
                           ELSE [record |-> TRUE, fields |-> fields]

\* _on_result_clicked, lines 676-680: the cache after the selected result's
\* raw_data was parsed
selected_records(raw_data) ==
    LET marc_record == extract_marc_record(raw_data)
    IN  IF marc_record.record THEN << marc_record >> ELSE << >>

\* ---- ServerQueryRunnable.run, lines 250-258

\* what the unit does with the output of a subprocess that was neither timed
\* out nor cancelled: _emit_result with the cleaned data and the hit count,
\* the "No records found" log, or the ValueError of clean_yaz_output, which
\* the except clause (CalledProcessError, OSError) lets through
evaluate_output(response, lines) ==
    IF response.returncode = 0 /\ ~response.blank
      THEN IF CleanRaises(lines)
             THEN [kind |-> "raised", number_of_hits |-> 0, raw_data |-> << >>]
             ELSE IF ExtractHits(response) > 0
                    THEN [kind |-> "result", number_of_hits |-> ExtractHits(response),
                          raw_data |-> clean_yaz_output(lines).lines]
                    ELSE [kind |-> "no_records", number_of_hits |-> 0, raw_data |-> << >>]
      ELSE [kind |-> "no_records", number_of_hits |-> 0, raw_data |-> << >>]

\* ---- the calls followed

MaxContentLen == 5       \* longest field content given to _remove_malformed_dollars
MaxPrefixLen == 4        \* longest line of a one-line output given to clean_yaz_output
MaxLines == 2            \* most lines of an output made of sample lines
MaxSubfields == 2        \* most subfields of a well-formed field line

\* field contents: every str over "$", a letter and a blank
Contents == Strings({"$", "a", " "}, MaxContentLen)

\* one-line outputs of yaz-client: every line over decimal digits around both
\* tag limits, the digit int() refuses, a blank and a letter
PrefixLines == Strings({"0", "1", "8", "9", "sup2", " ", "a"}, MaxPrefixLen)

\* lines of longer outputs: fields inside and outside the tag range, with and
\* without valid subfields, a malformed "$$", a log line, an empty line
SampleLines == {
    << "2", "4", "5", " ", "1", "0", " ", "$", "a", " ", "a" >>,
    << "0", "1", "0", " ", " ", " ", " ", "$", "a", "a", "$", "1", " ", "a" >>,
    << "8", "9", "9", " ", " ", " ", " ", "$", "$", "a", "$", "a", "a" >>,
    << "0", "0", "1", " ", "a", "a", "a" >>,
    << "0", "0", "8", " ", " ", " ", " ", "$", "a", "a" >>,
    << "9", "0", "0", " ", " ", " ", " ", "$", "a", "a" >>,
    << "2", "4", "5", " ", "1", "0", " ", "a" >>,
    << "2", "4", "5", " ", "1", "0", " ", "$", "a" >>,
    << "2", "4", "5", " ", "1", "0", " ", "$", "$", "a" >>,
    << "2", "4", "5", " ", "1", "0", " ", "$", " ", "a", "a" >>,
    << "2", "4", "5", " ", "1" >>,
    << "sup2", "4", "5", " ", "1", "0", " ", "$", "a", "a" >>,
    << "a", "a", "a", "a" >>,
    << >> }

\* outputs of yaz-client, as raw_data.splitlines()
Outputs == { << l >> : l \in PrefixLines } \cup Strings(SampleLines, MaxLines)

\* well-formed field lines, as yaz-client prints them: tag, blank, two
\* indicators, blank, then "$", code, `gap` blanks and value for each
\* subfield, the subfields one blank apart
RECURSIVE FormatSubfields(_, _)
FormatSubfields(subfields, gap) ==
    IF subfields = << >> THEN << >>
    ELSE << "$", Head(subfields).code >> \o [i \in 1..gap |-> " "] \o Head(subfields).value
             \o (IF Len(subfields) > 1 THEN << " " >> ELSE << >>)
             \o FormatSubfields(Tail(subfields), gap)

FormatLine(tag, indicators, subfields, gap) ==
    tag \o << " " >> \o indicators \o << " " >> \o FormatSubfields(subfields, gap)

FieldTags == { << "0", "1", "0" >>, << "2", "4", "5" >>, << "8", "9", "9" >> }
FieldIndicators == [1..2 -> {" ", "1"}]
FieldSubfields ==
    Strings([code : {"a", "1"}, value : { << "a" >>, << "a", " ", "a" >> }], MaxSubfields)
        \ { << >> }
FieldLines == { FormatLine(tag, indicators, subfields, gap) :
                    tag \in FieldTags, indicators \in FieldIndicators,
                    subfields \in FieldSubfields, gap \in 0..1 }

\* the lines handed to _process_line
Lines == FieldLines \cup SampleLines

\* the raw_data of a result: what clean_yaz_output returned to the unit
CleanedOutputs == { clean_yaz_output(o).lines : o \in { x \in Outputs : ~CleanRaises(x) } }

\* stdout of a unit's subprocess: the exit code and the hits line of
\* Responses, and the other lines of the output; a blank output has only
\* blank lines
UnitOutputs == { o \in [response : Responses, lines : Strings(SampleLines, 1)] :
                    o.response.blank => \A i \in DOMAIN o.lines : strip(o.lines[i]) = << >> }

\* a call that has not returned yet
Called(fn, args) == [fn : {fn}, arg : args, returned : {FALSE}, result : {<< >>}]

Return(value) == call' = [call EXCEPT !.returned = TRUE, !.result = value]

\* line_content = _remove_malformed_dollars(line_content)
Call_remove_malformed_dollars ==
    /\ call.fn = "remove_malformed_dollars"
    /\ ~call.returned
    /\ Return(remove_malformed_dollars(call.arg))
    /\ UNCHANGED applicationVars

\* _remove_malformed_dollars, iteration by iteration; call.result holds
\* line_content.  while "$$" in line_content: one iteration
Loop_remove_malformed_dollars ==
    /\ call.fn = "remove_malformed_dollars_loop"
    /\ ~call.returned
    /\ Find(call.result, << "$", "$" >>, 0) # -1
    /\ call' = [call EXCEPT !.result = loop_body(call.result)]
    /\ UNCHANGED applicationVars

\* the loop is left: return line_content
Return_remove_malformed_dollars ==
    /\ call.fn = "remove_malformed_dollars_loop"
    /\ ~call.returned
    /\ Find(call.result, << "$", "$" >>, 0) = -1
    /\ call' = [call EXCEPT !.returned = TRUE]
    /\ UNCHANGED applicationVars

\* cleaned_data = clean_yaz_output(stdout)
Call_clean_yaz_output ==
    /\ call.fn = "clean_yaz_output"
    /\ ~call.returned
    /\ Return(clean_yaz_output(call.arg))
    /\ UNCHANGED applicationVars

\* _process_line(line, record, log_callback)
Call_process_line ==
    /\ call.fn = "process_line"
    /\ ~call.returned
    /\ Return(process_line(call.arg))
    /\ UNCHANGED applicationVars

\* marc_record = extract_marc_record(cleaned_data, log_callback=...)
Call_extract_marc_record ==
    /\ call.fn = "extract_marc_record"
    /\ ~call.returned
    /\ Return(extract_marc_record(call.arg))
    /\ UNCHANGED applicationVars

\* marc_record = extract_marc_record(raw_data, ...); if marc_record:
\* current_marc_records = [marc_record] else: current_marc_records = []
Call_on_result_clicked ==
    /\ call.fn = "on_result_clicked"
    /\ ~call.returned
    /\ Return(selected_records(call.arg))
    /\ UNCHANGED applicationVars

\* if process.returncode == 0 and stdout.strip(): ... else: ...
Call_evaluate_output ==
    /\ call.fn = "evaluate_output"
    /\ ~call.returned
    /\ Return(evaluate_output(call.arg.response, call.arg.lines))
    /\ UNCHANGED applicationVars

UtilsCalls ==
    Called("remove_malformed_dollars", Contents)
        \cup Called("clean_yaz_output", Outputs)
        \cup Called("process_line", Lines)
        \cup Called("extract_marc_record", Outputs)
        \cup Called("on_result_clicked", CleanedOutputs)
        \cup Called("evaluate_output", UnitOutputs)

UtilsInit == AppConstructed /\ call \in UtilsCalls

UtilsNext ==
    \/ Call_remove_malformed_dollars
    \/ Call_clean_yaz_output
    \/ Call_process_line
    \/ Call_extract_marc_record
    \/ Call_on_result_clicked
    \/ Call_evaluate_output

UtilsSpec == UtilsInit /\ [][UtilsNext]_vars

\* _remove_malformed_dollars alone, iteration by iteration, on every field
\* content; the thread that called it is never stopped for good, so that the
\* function goes on running until it returns
LoopCalls ==
    { [fn |-> "remove_malformed_dollars_loop", arg |-> line_content,
       returned |-> FALSE, result |-> line_content] : line_content \in Contents }

LoopInit == AppConstructed /\ call \in LoopCalls

LoopNext ==
    \/ Loop_remove_malformed_dollars
    \/ Return_remove_malformed_dollars

LoopSpec == LoopInit /\ [][LoopNext]_vars /\ WF_vars(LoopNext)

\* ------------------------------------------------------- derived history

FinishedCount == Len(finished_emitted)

\* number of result_found emissions of unit u
ResultsOf(u) == results_emitted[u]

\* number of times unit u logged the diagnostic d
DiagnosticsOf(u, d) == Cardinality({ i \in DOMAIN logs[u] : logs[u][i] = d })

RunningProcesses == { u \in Units : proc[u] = "running" }

AllUnitsEnded == \A u \in Units : pc[u] = "done"

\* the result of unit u is on its way to, or shown in, the results window
ResultDelivered(u) ==
    \/ \E i \in DOMAIN mainQueue : mainQueue[i].sig = "result_found" /\ mainQueue[i].src = u
    \/ \E item \in results_window : item.server = u

\* ---------------------------------------------------------------- claims

\* C1: every invocation of Worker.run emits `finished` exactly once: never
\* twice at any moment, and once when run has returned.
C1_FinishedExactlyOnce ==
    /\ FinishedCount <= 1
    /\ workerPc = "done" => FinishedCount = 1

\* C2: in a dispatch that is not cancelled, once Worker.run has returned (all
\* units have ended) every server has incremented the completed counter by
\* one: completed_servers = len(servers).
C2_CompletedEqualsTotal ==
    (workerPc = "done" /\ ~cancel_requested) => completed_servers = Len(servers)

\* C3: no progress value 100 is emitted while cancellation has been requested.
C3_No100AfterCancel ==
    \A i \in DOMAIN progress_emitted :
        progress_emitted[i].cancelled => progress_emitted[i].val # 100

\* C4: no unit spawns its subprocess once the cancellation flag is set.
C4_NoSpawnAfterCancel ==
    [][\A u \in Units : (proc[u] = "none" /\ proc'[u] = "running") => ~cancel_requested]_vars

\* C5: at the step on which Worker.cancel() returns (it has terminated its
\* snapshot and cleared the registry), every subprocess that is still
\* running has been sent a terminate request.
C5_CancelTerminatesAll ==
    [][(mainPc = "cancel_terminate" /\ mainPc' = "thread_wait")
          => \A u \in Units : proc'[u] = "running" => terminated'[u]]_vars

\* C6: from the step on which a unit reads the cancellation flag as set, that
\* unit owns no running subprocess, the subprocess it had has been sent a
\* terminate request, and the unit emits no result_found.
C6_NoResultAfterObserved ==
    [][\A u \in Units :
          observed'[u] => /\ proc'[u] # "running"
                          /\ proc'[u] = "exited" => terminated'[u]
                          /\ results_emitted'[u] = results_emitted[u]]_vars

\* C6 witness: a unit saw the flag after its subprocess call returned, and ended.
C6_Witness ==
    \E u \in Units : observed[u] /\ proc[u] = "exited" /\ terminated[u] /\ pc[u] = "done"

\* C7: when `finished` is emitted for a dispatch of N >= 1 servers that was not
\* cancelled and whose units have all ended, a progress value was emitted
\* before it, and the last progress value emitted is 100.
C7_Last100BeforeFinished ==
    \A i \in DOMAIN finished_emitted :
        (Len(servers) >= 1 /\ ~finished_emitted[i].cancelled /\ AllUnitsEnded)
          => /\ progress_emitted # << >>
             /\ finished_emitted[i].after = Len(progress_emitted)
             /\ progress_emitted[Len(progress_emitted)].val = 100

\* C7 witness: a two-server dispatch that was not cancelled has emitted
\* finished after both units counted their completion.
C7_Witness ==
    /\ Len(servers) = 2
    /\ completed_servers = 2
    /\ \E i \in DOMAIN finished_emitted : ~finished_emitted[i].cancelled

\* C8: a dispatch of the empty server list (not cancelled by the operator)
\* spawns no subprocess, emits no result and no progress value, and once its
\* signals are handled the progress bar shows 100.
C8_EmptyDispatch ==
    (Len(servers) = 0 /\ ~cancel_clicked)
      => /\ \A u \in Units : proc[u] = "none" /\ ResultsOf(u) = 0
         /\ results_window = {}
         /\ progress_emitted = << >>
         /\ (workerPc = "done" /\ mainQueue = << >> /\ mainPc = "idle")
               => progress_bar = 100

C10_BoundedConcurrency == Cardinality(RunningProcesses) <= max_threads

\* C10 witness: max_threads subprocesses are live while another runnable waits
\* in the pool's queue.
C10_Witness ==
    /\ Cardinality(RunningProcesses) = max_threads
    /\ poolQueue # << >>

\* C11: within one dispatch the progress values emitted are in non-decreasing
\* order, whatever the order in which concurrent units finish.
C11_ProgressMonotone ==
    \A i, j \in DOMAIN progress_emitted :
        i < j => progress_emitted[i].val <= progress_emitted[j].val

\* C13: cancel() may be called any number of times.  Every call leaves the
\* flag set; every call returns with the registry empty; a call never
\* touches a subprocess that has already exited (its terminate record is
\* unchanged), and a call that finds the registry empty changes no
\* subprocess at all; and the completion signal still fires: Worker.run is
\* never blocked before its end, and has emitted `finished` when it ends.
C13_CancelIdempotent ==
    /\ [][/\ cancel_requested => cancel_requested'
          /\ (mainPc = "cancel_terminate" /\ mainPc' = "thread_wait") =>
                /\ cancel_requested'
                /\ processes' = {}
                /\ \A u \in Units : proc[u] # "running" =>
                                      (proc'[u] = proc[u] /\ terminated'[u] = terminated[u])
                /\ processes_copy = {} => (proc' = proc /\ terminated' = terminated)]_vars
    /\ [](/\ workerPc # "done" => ENABLED WorkerSide
          /\ workerPc = "done" => FinishedCount >= 1)

\* C13 witness: the second call of cancel() has returned while a unit still
\* runs, the first call having terminated a subprocess.
C13_Witness ==
    /\ cancel_calls >= 2
    /\ \E u \in Units : terminated[u] /\ proc[u] = "exited"
    /\ \E u \in Units : pc[u] \notin {"idle", "queued", "done"}

\* C12: when the `finished` signal of a dispatch for which cancellation was
\* requested has been handled, the progress bar shows 0 and "Search
\* completed." was not reported by that handling.
C12_CancelledNotCompleted ==
    [][\A d \in Dispatches :
          (dispatchCancel[d] /\ FinishedHandled(d))
             => (progress_bar' = 0 /\ message' # "search_completed")]_vars

\* C14: the cache never holds more records than the total hit count.
C14_CacheWithinTotal == Len(current_marc_records) <= total_records

\* C15: whenever the cache is non-empty, 0 <= current_index < total_hits.
C15_IndexWithinTotal ==
    current_marc_records # << >>
       => (0 <= current_record_index /\ current_record_index < total_records)

\* C16: a Next request at the last cached record while more records remain
\* (nothing in progress) starts exactly one fetch, for the ordinal
\* cache.length + 1; and cache position i (from 0) holds the record of
\* ordinal i + 1.
C16_FetchAtNextOrdinal ==
    /\ [][(/\ Session_show_next_record
           /\ ~fetch_in_progress
           /\ next_worker = 0
           /\ current_record_index + 1 >= Len(current_marc_records)
           /\ current_record_index + 1 < total_records)
             => \E f \in Fetches :
                   /\ FetchStarted(f)
                   /\ fetchStart'[f] = Len(current_marc_records) + 1
                   /\ \A g \in Fetches \ {f} : fetchPc'[g] = fetchPc[g]]_vars
    /\ [](\A i \in DOMAIN current_marc_records : current_marc_records[i] = i)

\* C17: at most one NextRecordWorker runs at any time, and a Next request
\* made while one runs is answered "already in progress": no worker is
\* started or touched, and index, cache and total hit count are unchanged.
C17_OneFetchAtATime ==
    /\ [](Cardinality(FetchesInFlight) <= 1)
    /\ [][(Session_show_next_record /\ FetchesInFlight # {})
             => /\ message' = "fetch_in_progress"
                /\ UNCHANGED << searchState, sessionWorkers, next_worker >>]_vars

\* C17 witness: a Next request was rejected because the worker's thread
\* still runs, the fetch_in_progress flag being already false.
C17_Witness ==
    /\ message = "fetch_in_progress"
    /\ ~fetch_in_progress
    /\ next_worker \in FetchesInFlight

\* C18: no NextRecordWorker is started while a dispatch is active (its
\* Worker.run has not returned and it was not cancelled).
C18_NoFetchDuringDispatch ==
    [][\A f \in Fetches : FetchStarted(f) => ~DispatchActive]_vars

C20_NoRecordAfterCancel ==
    [][\A f \in Fetches :
          (fetchCancel[f] /\ Delivered("record_fetched", f))
             => UNCHANGED << current_marc_records, current_record_index >>]_vars

\* C21: a Previous request decrements the index by one when it is above 0
\* and leaves it unchanged at 0; it starts no NextRecordWorker, touches no
\* worker, and leaves the cache and the total hit count unchanged.
C21_PreviousFrame ==
    [][Session_show_prev_record
         => /\ current_record_index' = IF current_record_index > 0
                                         THEN current_record_index - 1
                                         ELSE current_record_index
            /\ UNCHANGED << current_marc_records, total_records >>
            /\ UNCHANGED << sessionWorkers, next_worker, fetch_in_progress >>]_vars

\* C21 witness: Previous has stepped back from the second cached record (a
\* cache of two records with index 0 arises in no other way).
C21_Witness ==
    /\ Len(current_marc_records) = 2
    /\ current_record_index = 0
    /\ message = "none"

\* the four values the navigation controls are to depend on, and the controls
NavKey == << current_record_index, Len(current_marc_records), total_records,
             fetch_in_progress >>
NavControls == << prev_enabled, next_enabled >>

\* C22: the enablement of Previous and Next after a transition is a function
\* of (index, cache length, total hits, fetch in progress): a handler that
\* leaves these four values as they were leaves the enablement as it was.
C22_NavigationIsAFunction ==
    [][(mainPc = "idle" /\ mainPc' = "idle" /\ NavKey' = NavKey)
          => NavControls' = NavControls]_vars

C28_RepairIdempotent ==
    (call.fn = "remove_malformed_dollars" /\ call.returned)
        => remove_malformed_dollars(call.result) = call.result

\* a content with two "$$" has been repaired: the loop ran more than once
C28_Witness ==
    /\ call.fn = "remove_malformed_dollars"
    /\ call.returned
    /\ call.arg = << "$", "$", "a", "$", "$" >>
    /\ call.result = << >>

\* C27: clean_yaz_output drops every line whose tag is < 10 or >= 900 and
\* every line that does not start with 3 digits followed by a space, and
\* keeps every other line unchanged and in the original order.
TagDigits(line) == Len(line) >= 4 /\ line[4] = " " /\ \A i \in 1..3 : line[i] \in DecimalDigits
TagInRange(line) == 10 <= int(Slice(line, 0, 3)) /\ int(Slice(line, 0, 3)) < 900
FieldLine(line) == TagDigits(line) /\ TagInRange(line)
C27_CleanFilters ==
    (call.fn = "clean_yaz_output" /\ call.returned)
        => /\ ~call.result.raised
           /\ call.result.lines = SelectSeq(call.arg, FieldLine)

\* C26: for every valid data-field line (3-digit tag in 010..899, exactly 2
\* indicator characters, at least one valid "$code value" subfield) the parser
\* adds exactly one field with that tag, those two indicators and those
\* subfields in their original order.
C26_FieldReconstructed ==
    \A tag \in FieldTags, indicators \in FieldIndicators,
       subfields \in FieldSubfields, gap \in 0..1 :
        (/\ call.fn = "process_line"
         /\ call.returned
         /\ call.arg = FormatLine(tag, indicators, subfields, gap))
            => call.result = << [tag |-> tag, indicators |-> indicators,
                                 subfields |-> subfields] >>

\* a line with two subfields, indicators "1" and blank, and a value holding a
\* blank has been parsed into its field
C26_Witness ==
    /\ call.fn = "process_line"
    /\ call.returned
    /\ call.arg = << "2", "4", "5", " ", "1", " ", " ", "$", "a", " ", "a", " ", "a",
                     " ", "$", "1", " ", "a" >>
    /\ Len(call.result) = 1
    /\ Len(call.result[1].subfields) = 2

\* C29: extract_marc_record accepts a control-field line (3-digit tag in
\* 000..009 followed by a space) and adds a control field whose data is the
\* remainder of the line verbatim.
ControlLine(line) == TagDigits(line) /\ int(Slice(line, 0, 3)) < 10
HasControlField(fields, line) ==
    \E j \in DOMAIN fields :
        /\ fields[j].tag = Slice(line, 0, 3)
        /\ "data" \in DOMAIN fields[j]
        /\ fields[j].data = SliceFrom(line, 4)
C29_ControlFieldAccepted ==
    (call.fn = "extract_marc_record" /\ call.returned)
        => \A i \in DOMAIN call.arg :
               ControlLine(call.arg[i]) => HasControlField(call.result.fields, call.arg[i])

\* C30: a data field is added only if its line yields a valid subfield, and no
\* record is returned when no line yields a field: a record without fields, or
\* with a field without subfields, is never returned by the parser nor stored
\* in the session cache.
WellFormedRecord(marc_record) ==
    /\ marc_record.record
    /\ marc_record.fields # << >>
    /\ \A j \in DOMAIN marc_record.fields : marc_record.fields[j].subfields # << >>
C30_NoEmptyRecord ==
    /\ (call.fn = "process_line" /\ call.returned)
           => \A j \in DOMAIN call.result : call.result[j].subfields # << >>
    /\ (call.fn = "extract_marc_record" /\ call.returned)
           => IF record_fields(call.arg) = << >>
                THEN ~call.result.record
                ELSE WellFormedRecord(call.result)
    /\ (call.fn = "on_result_clicked" /\ call.returned)
           => \A k \in DOMAIN call.result : WellFormedRecord(call.result[k])

\* an output whose first line has a tag in range and no valid subfield and
\* whose second line is a field has been parsed: the record has the one field
C30_Witness ==
    /\ call.fn = "extract_marc_record"
    /\ call.returned
    /\ call.arg = << << "2", "4", "5", " ", "1", "0", " ", "$", "a" >>,
                      << "2", "4", "5", " ", "1", "0", " ", "$", "a", " ", "a" >> >>
    /\ call.result.record
    /\ Len(call.result.fields) = 1

\* C25: a unit emits a result only if its subprocess exited with code 0,
\* produced non-blank output and the parsed hit count is > 0; a response
\* reporting 0 hits, an empty output or a non-zero exit yields the no-results
\* diagnostic and no result; every emitted result carries a hit count >= 1.
NoResultsResponse(response) ==
    \/ response.returncode # 0
    \/ response.blank
    \/ (response.hitsLine = "number" /\ response.hits = 0)
C25_ResultOnlyWithHits ==
    (call.fn = "evaluate_output" /\ call.returned)
        => /\ call.result.kind = "result"
                  => /\ call.arg.response.returncode = 0
                     /\ ~call.arg.response.blank
                     /\ ExtractHits(call.arg.response) > 0
                     /\ call.result.number_of_hits >= 1
           /\ NoResultsResponse(call.arg.response) => call.result.kind = "no_records"

C32_RegistryUnderMutex ==
    /\ [](Cardinality(mutex) <= 1)
    /\ [][\A thread \in Threads : RegistryAccess(thread) => thread \in mutex]_vars
    /\ [][processes' # processes => \E thread \in Threads : RegistryAccess(thread)]_vars

\* a unit holds the mutex and is about to prune the registry, which holds its
\* handle, while Worker.cancel on the main thread waits for the mutex to
\* clear the registry
C32_Witness ==
    /\ mutex = {UnitThread(1)}
    /\ pc[1] = "prune_locked"
    /\ 1 \in processes
    /\ mainPc = "cancel_clear"

\* C33: the "$$" repair loop terminates on every input and its output holds
\* no "$$"; each iteration removes the run from the first "$$" up to, and not
\* including, the next "$", or to the end of the content when there is none,
\* and leaves the other characters in their order.
FirstDoubleDollar(s, i) ==
    /\ s[i] = "$" /\ s[i + 1] = "$"
    /\ \A k \in 1..(i - 1) : ~(s[k] = "$" /\ s[k + 1] = "$")
NextDollar(s, i, j) ==
    /\ \A k \in (i + 2)..(j - 1) : s[k] # "$"
    /\ j <= Len(s) => s[j] = "$"
C33_RepairLoop ==
    /\ [][Loop_remove_malformed_dollars
             => /\ Len(call'.result) < Len(call.result)
                /\ \E i \in 1..(Len(call.result) - 1), j \in 3..(Len(call.result) + 1) :
                       /\ j >= i + 2
                       /\ FirstDoubleDollar(call.result, i)
                       /\ NextDollar(call.result, i, j)
                       /\ call'.result = SubSeq(call.result, 1, i - 1)
                                            \o SubSeq(call.result, j, Len(call.result))]_vars
    /\ []((call.fn = "remove_malformed_dollars_loop" /\ call.returned)
             => \A k \in 1..(Len(call.result) - 1) :
                    ~(call.result[k] = "$" /\ call.result[k + 1] = "$"))
    /\ (call.fn = "remove_malformed_dollars_loop")
          ~> (call.fn = "remove_malformed_dollars_loop" /\ call.returned)

\* the loop has returned after two iterations: the first cut ran up to the
\* next "$", the second to the end of the content
C33_Witness ==
    /\ call.fn = "remove_malformed_dollars_loop"
    /\ call.returned
    /\ call.arg = << "a", "$", "$", "$", "$" >>
    /\ call.result = << "a" >>

\* C34: whenever the cache is non-empty the index refers to a cached record:
\* 0 <= current_index < cache.length.
C34_IndexInCache ==
    current_marc_records # << >>
       => (0 <= current_record_index
              /\ current_record_index < Len(current_marc_records))

\* A fetch is started for the ordinal index + 2 only where index + 1 <
\* total_records (main.py:780-781), and total_records is written by
\* _start_search and _on_result_clicked alone: where the ordinal of fetch f
\* is above total_records, a search was started or a result selected after
\* the fetch was started.
FetchOfEarlierSession(f) == fetchStart[f] > total_records

\* C35: every cached record comes from the selected server for the current
\* query: the record of a fetch that was started before a later new search or
\* a later result selection is not appended to the cache of the newer session.
C35_NoRecordOfEarlierSession ==
    [][\A f \in Fetches :
          (Delivered("record_fetched", f) /\ FetchOfEarlierSession(f))
             => UNCHANGED current_marc_records]_vars

\* the finished signals NextRecordWorker f emits on a step of its run
FinishedEmissions(f) ==
    { i \in (Len(mainQueue) + 1)..Len(mainQueue') :
        mainQueue'[i].sig = "next_finished" /\ mainQueue'[i].src = f }

\* C36: NextRecordWorker.run emits finished exactly once on every path.
C36_NextFinishedOnce ==
    [][\A f \in Fetches :
          (f \in FetchesInFlight /\ FetchEnded(f)')
             => Cardinality(FinishedEmissions(f)) = 1]_vars

FetchOutstanding(f) ==
    \/ f \in FetchesInFlight
    \/ \E i \in DOMAIN mainQueue :
          mainQueue[i].sig = "next_finished" /\ mainQueue[i].src = f

\* C38: fetch_in_progress is true exactly while a fetch is outstanding: it
\* is never false while the subprocess of a NextRecordWorker runs, and never
\* true when no NextRecordWorker is outstanding.
C38_FlagIffOutstanding ==
    /\ (\E f \in Fetches : fetchPc[f] = "communicate") => fetch_in_progress
    /\ fetch_in_progress => \E f \in Fetches : FetchOutstanding(f)

\* C39: a completion signal is applied to the worker that emitted it: the
\* handling of the finished signal of a dispatch or of a continuation does
\* not cancel a Worker or NextRecordWorker that was started later (the
\* workers of a session are numbered in the order they are started).
C39_FinishedOfItsOwnWorker ==
    [][/\ \A d \in Dispatches : \A e \in Dispatches :
             (Delivered("finished", d) /\ e > d)
                => dispatchCancel'[e] = dispatchCancel[e]
       /\ \A f \in Fetches : \A g \in Fetches :
             (Delivered("next_finished", f) /\ g > f)
                => fetchCancel'[g] = fetchCancel[g]]_vars

\* C40: while a continuation fetch is in flight, Previous and Next are both
\* disabled, so that the index does not change between the start of the
\* fetch and the handling of its outcome.
C40_NavigationOffDuringFetch ==
    /\ [](FetchesInFlight # {} => (~prev_enabled /\ ~next_enabled))
    /\ [][FetchesInFlight # {} /\ FetchesInFlight' # {}
             => current_record_index' = current_record_index]_vars

====
